---------------------------- MODULE Spec2Model ----------------------------
(***************************************************************************)
(* A model of the ICSARA extraction pipeline (app/pipeline/extract.py) and *)
(* of the job worker around it (app/tasks/pipeline_tasks.py).              *)
(*                                                                         *)
(* The module holds several specifications over one set of variables; each *)
(* specification drives one part of the program and leaves the variables   *)
(* of the other parts at their idle values:                                *)
(*   SpecSeg    the text segmenter (extract_questions_from_text)           *)
(***************************************************************************)
EXTENDS Integers, Sequences, FiniteSets, TLC

VARIABLES
    \* ---- text segmenter (extract_questions_from_text)
    seg_pc,      \* "off" | "scan" | "filter" | "done"
    seg_n,       \* number of regex matches scanned so far
    starts,      \* candidates that passed is_false_question_start: <<[ini, num]>>
    mf_i,        \* loop index of apply_monotonic_filter (1-based)
    kept,        \* apply_monotonic_filter: kept
    last_num,    \* apply_monotonic_filter: last_num
    seg_out,     \* the questions returned: <<[numero, ini, fin]>>
    seg_m,       \* the match the scan loop examined last, <<>> outside the loop
    \* ---- hierarchy builder (filter_questions_by_continuity, build_hierarchy)
    x_pc,        \* run_extraction: "off" | "input" | "fold" | "assoc" | "done"
    merged_bolds,\* merged bold runs of all pages: <<[sort_key, height, roman, excl]>>
    all_chapters,\* chapter events of classify_bolds, in page and y0 order
    all_hinges,  \* hinge events of classify_bolds, in page and y0 order
    all_qs_raw,  \* layout question starts of all pages: <<[num, page, sort_key]>>
    timeline,    \* build_hierarchy: the sorted timeline
    tl_i,        \* build_hierarchy: index of the next timeline item
    result,      \* build_hierarchy: result
    cur_ch,      \* build_hierarchy: cur_ch, <<>> for None, <<chapter>> otherwise
    cur_h,       \* build_hierarchy: cur_h, <<>> for None, <<hinge>> otherwise
    \* ---- artifact association (run_extraction, FASE 4 and dets_by_q)
    include_png,     \* run_extraction's include_png argument
    all_detections,  \* <<[tipo, page, y0, pregunta, parte, png]>>
    all_qs_filtered, \* filter_questions_by_continuity(all_qs_raw)
    sort_keys,       \* keys of the sorted question starts
    qs_sorted,       \* the question starts sorted by sort_key
    det_i,           \* index of the next detection of the FASE 4 loop
    part_counters,   \* (q_label, tipo) -> count, a defaultdict(int)
    png_dir,         \* names of the files in out_dir/outputs_png
    png_written,     \* names written by the current run, one entry per write
    dets_by_q,       \* question number -> <<[tipo, parte, png]>>
    run_no,          \* 1 for the first run on the input, 2 for the repeated one
    prev_out,        \* what the first run produced, <<>> before it ends
    \* ---- header/footer filter (build_frequent_line_filter and the cleaning)
    f_pc,              \* "off" | "input" | "built" | "done"
    pages_lines,       \* the lines of each page, in page order
    c_count,           \* build_frequent_line_filter: the Counter c
    threshold,         \* build_frequent_line_filter: threshold
    frequent_lines,    \* the set build_frequent_line_filter returns
    pages_clean_lines, \* clean_page_lines_keep_empty of each page
    \* ---- job lifecycle (API routes, process_job, cleanup script)
    job,         \* the row of the job in the jobs table, <<>> when there is none
    due,         \* the clock has passed the job's expires_at
    artifacts,   \* names of the job's rows in job_artifacts
    queue,       \* process_job messages waiting in the broker
    fs_job_dir,  \* the job directory (parent of the output directory) exists
    fs_input,    \* the input PDF exists
    fs_out_dir,  \* the output directory exists
    fs_files,    \* names of the files in the output directory
    direct,      \* run_extraction was called directly, not by process_job
    w_pc,        \* position of the running process_job / run_extraction
    w_args,      \* [classify, include_png] of the running task
    w_exc,       \* the exception in flight or handled: [type, at], <<>> if none
    w_ret,       \* status returned by the last process_job, "" before
    w_touched,   \* the run has created or written something in the output location
    c_pc,        \* cleanup script: "idle" | "rm" | "arts" | "upd"
    d_pc,        \* DELETE /v1/jobs/{id}: "idle" | "rm" | "row"
    \* ---- signature cleaning (clean_firma_digital)
    t_pc,        \* "off" | "input" | "done"
    n_chunks,    \* number of phrases the text was put together from
    texto,       \* the argument of clean_firma_digital, a sequence of tokens
    limpio,      \* the text clean_firma_digital returns
    \* ---- output records (run_extraction, FASE 5)
    preguntas_text,  \* the questions of the text segmenter: <<[numero, texto]>>
    lookup,          \* build_question_lookup(hierarchy)
    preguntas_final, \* the output records
    \* ---- API (the /v1/jobs routes)
    api_resp,    \* the last request and its response, <<>> before the first
    \* ---- rectangle merging (merge_rects, extract_raster_figures)
    mr_pc,       \* "off" | "idle" | "first" | "pass" | "done"
    mr_images,   \* extract_raster_figures: the image rectangles of the page
    mr_rects,    \* merge_rects: rects
    mr_gap,      \* merge_rects: gap
    mr_i,        \* merge_rects: index of the first loop (1-based)
    mr_out,      \* merge_rects: out
    mr_new_out,  \* merge_rects: new_out
    mr_changed   \* merge_rects: changed

segVars == <<seg_pc, seg_n, starts, mf_i, kept, last_num, seg_out, seg_m>>

hierVars ==
    <<x_pc, merged_bolds, all_chapters, all_hinges, all_qs_raw, timeline, tl_i, result,
      cur_ch, cur_h>>

assocVars ==
    <<include_png, all_detections, all_qs_filtered, sort_keys, qs_sorted, det_i,
      part_counters, png_dir, png_written, dets_by_q, run_no, prev_out>>

freqVars ==
    <<f_pc, pages_lines, c_count, threshold, frequent_lines, pages_clean_lines>>

jobVars ==
    <<job, due, artifacts, queue, fs_job_dir, fs_input, fs_out_dir, fs_files, direct,
      w_pc, w_args, w_exc, w_ret, w_touched, c_pc, d_pc>>

firmaVars == <<t_pc, n_chunks, texto, limpio>>

crossVars == <<preguntas_text, lookup, preguntas_final>>

apiVars == <<api_resp>>

rectVars ==
    <<mr_pc, mr_images, mr_rects, mr_gap, mr_i, mr_out, mr_new_out, mr_changed>>

vars ==
    <<segVars, hierVars, assocVars, freqVars, jobVars, firmaVars, crossVars, apiVars, rectVars>>

\* What each part leaves alone: the variables of the other parts.
othersOfSeg ==
    <<hierVars, assocVars, freqVars, jobVars, firmaVars, crossVars, apiVars, rectVars>>
othersOfHier ==
    <<segVars, assocVars, freqVars, jobVars, firmaVars, crossVars, apiVars, rectVars>>
othersOfAssoc ==
    <<segVars, merged_bolds, all_chapters, all_hinges, timeline, tl_i, result,
      cur_ch, cur_h, freqVars, jobVars, firmaVars, crossVars, apiVars, rectVars>>
othersOfFreq ==
    <<segVars, hierVars, assocVars, jobVars, firmaVars, crossVars, apiVars, rectVars>>
othersOfJob ==
    <<segVars, hierVars, assocVars, freqVars, firmaVars, crossVars, apiVars, rectVars>>
othersOfFirma ==
    <<segVars, hierVars, assocVars, freqVars, jobVars, crossVars, apiVars, rectVars>>
othersOfRect ==
    <<segVars, hierVars, assocVars, freqVars, jobVars, firmaVars, crossVars, apiVars>>
othersOfApi ==
    <<segVars, hierVars, assocVars, freqVars, jobVars, firmaVars, crossVars, rectVars>>

\* Python's None where the code compares it with a number read from digits.
None == -1

(***************************************************************************)
(* Generic helpers                                                         *)
(***************************************************************************)
Max(a, b) == IF a >= b THEN a ELSE b

Range(s) == {s[i] : i \in 1..Len(s)}

\* int(num) for a string of decimal digits (a sequence of digits here).
RECURSIVE int(_)
int(s) == IF Len(s) = 0 THEN 0 ELSE 10 * int(SubSeq(s, 1, Len(s) - 1)) + s[Len(s)]

(***************************************************************************)
(* Idle values of each part                                                *)
(***************************************************************************)
SegOff ==
    /\ seg_pc = "off"
    /\ seg_n = 0
    /\ starts = <<>>
    /\ mf_i = 0
    /\ kept = <<>>
    /\ last_num = None
    /\ seg_out = <<>>
    /\ seg_m = <<>>

HierOff ==
    /\ x_pc = "off"
    /\ merged_bolds = <<>>
    /\ all_chapters = <<>>
    /\ all_hinges = <<>>
    /\ all_qs_raw = <<>>
    /\ timeline = <<>>
    /\ tl_i = 0
    /\ result = <<>>
    /\ cur_ch = <<>>
    /\ cur_h = <<>>

AssocOff ==
    /\ include_png = FALSE
    /\ all_detections = <<>>
    /\ all_qs_filtered = <<>>
    /\ sort_keys = <<>>
    /\ qs_sorted = <<>>
    /\ det_i = 0
    /\ part_counters = <<>>
    /\ png_dir = {}
    /\ png_written = <<>>
    /\ dets_by_q = <<>>
    /\ run_no = 0
    /\ prev_out = <<>>

FreqOff ==
    /\ f_pc = "off"
    /\ pages_lines = <<>>
    /\ c_count = <<>>
    /\ threshold = 0
    /\ frequent_lines = {}
    /\ pages_clean_lines = <<>>

JobOff ==
    /\ job = <<>>
    /\ due = FALSE
    /\ artifacts = {}
    /\ queue = 0
    /\ fs_job_dir = FALSE
    /\ fs_input = FALSE
    /\ fs_out_dir = FALSE
    /\ fs_files = {}
    /\ direct = FALSE
    /\ w_pc = "off"
    /\ w_args = <<>>
    /\ w_exc = <<>>
    /\ w_ret = ""
    /\ w_touched = FALSE
    /\ c_pc = "off"
    /\ d_pc = "off"

FirmaOff ==
    /\ t_pc = "off"
    /\ n_chunks = 0
    /\ texto = <<>>
    /\ limpio = <<>>

CrossOff ==
    /\ preguntas_text = <<>>
    /\ lookup = <<>>
    /\ preguntas_final = <<>>

ApiOff == api_resp = <<>>

RectOff ==
    /\ mr_pc = "off"
    /\ mr_images = <<>>
    /\ mr_rects = <<>>
    /\ mr_gap = 0
    /\ mr_i = 0
    /\ mr_out = <<>>
    /\ mr_new_out = <<>>
    /\ mr_changed = FALSE

(***************************************************************************)
(* Text segmenter                                                          *)
(***************************************************************************)
YEAR_MIN == 1900
YEAR_MAX == 2100
MONO_DROP_THRESHOLD == 5

\* Most regex matches of PAT_PREGUNTA fed to one run of the segmenter.
MaxMatches == 3

\* The number strings group(1) of PAT_PREGUNTA takes in the model: 1 to 4
\* decimal digits, with and without a leading zero, a year, and the numbers of
\* the spec's scenario D.
NumStrs ==
    { <<1>>, <<2>>, <<3>>, <<7>>, <<8>>, <<0, 1>>, <<1, 2>>, <<4, 5>>, <<4, 6>>,
      <<2, 0, 2, 4>> }

\* What is_false_question_start reads of the text around one match: the
\* number string, whether the match's line holds one of FIRMA_TOKENS, whether
\* the line is only "<num>." and how the next non-empty line starts.
\* A line that is only "<num>." holds no signature token.
Matches ==
    { m \in [num : NumStrs, firma : BOOLEAN, only_num : BOOLEAN,
             nxt : {"none", "letter", "other"}] : ~(m.only_num /\ m.firma) }

IsYear(num_str) ==
    /\ Len(num_str) = 4
    /\ YEAR_MIN <= int(num_str)
    /\ int(num_str) <= YEAR_MAX

is_false_question_start(m) ==
    IF IsYear(m.num) /\ m.firma THEN TRUE
    ELSE IF ~m.only_num THEN FALSE
    ELSE IF IsYear(m.num) THEN TRUE
    ELSE IF Len(m.num) >= 2 /\ m.num[1] = 0 THEN TRUE
    ELSE m.nxt = "other"

\* The drop test of apply_monotonic_filter for a candidate n, given last_num.
MonoDrops_NoTolerance(n, last) == last # None /\ n < last

MonoDrops(n, last) ==
    last # None /\ n < last /\ (last - n) >= MONO_DROP_THRESHOLD

SegInit ==
    /\ seg_pc = "scan"
    /\ seg_n = 0
    /\ starts = <<>>
    /\ mf_i = 0
    /\ kept = <<>>
    /\ last_num = None
    /\ seg_out = <<>>
    /\ seg_m = <<>>

\* extract_questions_from_text, the loop over the matches: a match that is
\* not a false start is appended to starts with its offset.
ScanMatch ==
    /\ seg_pc = "scan"
    /\ seg_n < MaxMatches
    /\ \E m \in Matches :
         /\ seg_m' = <<m>>
         /\ starts' = IF is_false_question_start(m)
                      THEN starts
                      ELSE Append(starts, [ini |-> seg_n + 1, num |-> m.num])
    /\ seg_n' = seg_n + 1
    /\ UNCHANGED <<seg_pc, mf_i, kept, last_num, seg_out>>
    /\ UNCHANGED othersOfSeg

\* The matches are exhausted: apply_monotonic_filter(starts) is entered.
ScanEnd ==
    /\ seg_pc = "scan"
    /\ seg_pc' = "filter"
    /\ mf_i' = 1
    /\ kept' = <<>>
    /\ last_num' = None
    /\ seg_m' = <<>>
    /\ UNCHANGED <<seg_n, starts, seg_out>>
    /\ UNCHANGED othersOfSeg

\* One iteration of apply_monotonic_filter's loop.
MonoStep ==
    /\ seg_pc = "filter"
    /\ mf_i <= Len(starts)
    /\ LET c == starts[mf_i]
           n == int(c.num)
       IN IF MonoDrops(n, last_num)
          THEN UNCHANGED <<kept, last_num>>
          ELSE /\ kept' = Append(kept, c)
               /\ last_num' = n
    /\ mf_i' = mf_i + 1
    /\ UNCHANGED <<seg_pc, seg_n, starts, seg_out, seg_m>>
    /\ UNCHANGED othersOfSeg

\* Each kept boundary's span cut at the candidate that follows it, kept or
\* not.
Slice_ToNextCandidate ==
    /\ seg_pc = "filter"
    /\ mf_i > Len(starts)
    /\ seg_out' = [i \in 1..Len(kept) |->
                     [numero |-> int(kept[i].num),
                      ini |-> kept[i].ini,
                      fin |-> LET later == {starts[j].ini : j \in 1..Len(starts)}
                                              \ (1..kept[i].ini)
                              IN IF later # {}
                                 THEN CHOOSE x \in later : \A y \in later : x <= y
                                 ELSE seg_n + 1]]
    /\ seg_pc' = "done"
    /\ UNCHANGED <<seg_n, starts, mf_i, kept, last_num, seg_m>>
    /\ UNCHANGED othersOfSeg

\* The filter returns kept; each kept boundary runs to the next kept one, the
\* last to the end of the text (offset seg_n + 1).
Slice ==
    /\ seg_pc = "filter"
    /\ mf_i > Len(starts)
    /\ seg_out' = [i \in 1..Len(kept) |->
                     [numero |-> int(kept[i].num),
                      ini |-> kept[i].ini,
                      fin |-> IF i + 1 <= Len(kept) THEN kept[i + 1].ini
                              ELSE seg_n + 1]]
    /\ seg_pc' = "done"
    /\ UNCHANGED <<seg_n, starts, mf_i, kept, last_num, seg_m>>
    /\ UNCHANGED othersOfSeg

SegNext == ScanMatch \/ ScanEnd \/ MonoStep \/ Slice

InitSeg ==
    /\ SegInit
    /\ HierOff
    /\ AssocOff
    /\ FreqOff
    /\ JobOff
    /\ FirmaOff
    /\ CrossOff
    /\ ApiOff
    /\ RectOff

SpecSeg == InitSeg /\ [][SegNext]_vars

(***************************************************************************)
(* Claims about the text segmenter                                         *)
(***************************************************************************)
\* C2: the questions returned by one run of extract_questions_from_text have
\* pairwise distinct numero values.
C2_NumerosDistinct ==
    seg_pc = "done" =>
        \A i, j \in 1..Len(seg_out) :
            i # j => seg_out[i].numero # seg_out[j].numero

\* A step of apply_monotonic_filter's loop drops the candidate exactly when
\* its number is below the last kept number by MONO_DROP_THRESHOLD or more; a
\* drop leaves kept and last_num alone, a keep appends the candidate and
\* makes its number the reference.
MonoStepRule ==
    (seg_pc = "filter" /\ mf_i' = mf_i + 1) =>
        LET c == starts[mf_i]
            n == int(c.num)
            dropped == /\ Len(kept) > 0
                       /\ n < int(kept[Len(kept)].num)
                       /\ int(kept[Len(kept)].num) - n >= 5
        IN /\ dropped => (kept' = kept /\ last_num' = last_num)
           /\ ~dropped => (kept' = Append(kept, c) /\ last_num' = n)

\* Any two consecutively kept numbers a then b have b >= a or a - b < 5.
KeptPairsWithinTolerance ==
    \A i \in 1..(Len(kept) - 1) :
        LET a == int(kept[i].num)
            b == int(kept[i + 1].num)
        IN b >= a \/ a - b < 5

\* C3: apply_monotonic_filter drops a candidate exactly when it is below the
\* last kept number by 5 or more, a dropped candidate does not move the
\* reference, every kept one becomes it, and so consecutive kept numbers
\* a, b satisfy b >= a or a - b < 5.
C3_MonotonicFilter ==
    [][MonoStepRule]_vars /\ []KeptPairsWithinTolerance

\* Scenario D: the candidates 45, 12, 46 keep 45 and 46 and drop 12.
C3_Witness ==
    /\ seg_pc = "done"
    /\ [i \in 1..Len(starts) |-> int(starts[i].num)] = <<45, 12, 46>>
    /\ [i \in 1..Len(seg_out) |-> seg_out[i].numero] = <<45, 46>>

\* The candidate the scan loop examined last was appended to starts.
LastMatchAccepted == starts # <<>> /\ starts[Len(starts)].ini = seg_n

LeadingZero(num_str) == Len(num_str) >= 2 /\ num_str[1] = 0

\* C21: a candidate whose line is only "<digits>." is rejected unless the
\* next non-empty line starts with a non-letter character, and in that case
\* accepted, except that a 4-digit number in 1900..2100 and a number of two
\* or more digits with a leading zero are always rejected.
C21_OnlyNumberLineDecision ==
    (seg_pc = "scan" /\ seg_m # <<>> /\ seg_m[1].only_num) =>
        (LastMatchAccepted <=>
            /\ ~IsYear(seg_m[1].num)
            /\ ~LeadingZero(seg_m[1].num)
            /\ seg_m[1].nxt = "other")

\* The positions of the text from the first kept boundary to its end.
CoveredPositions ==
    IF seg_out = <<>> THEN {} ELSE seg_out[1].ini .. seg_n

\* The spans that hold position p.
SpansHolding(p) ==
    {i \in 1..Len(seg_out) : seg_out[i].ini <= p /\ p < seg_out[i].fin}

\* The positions of the candidates of starts that the monotonic filter
\* dropped.
DroppedPositions ==
    {starts[j].ini : j \in 1..Len(starts)} \ {kept[i].ini : i \in 1..Len(kept)}

\* C26: the spans of the questions returned are contiguous and do not
\* overlap: each runs from its kept boundary to the next kept boundary, the
\* last to the end of the text; every position from the first kept boundary
\* on lies in exactly one span, and a dropped candidate lies in the span of
\* the kept boundary that precedes it.
C26_SpansContiguous ==
    seg_pc = "done" =>
        /\ [i \in 1..Len(seg_out) |-> seg_out[i].ini] = [i \in 1..Len(kept) |-> kept[i].ini]
        /\ \A i \in 1..Len(seg_out) :
              /\ seg_out[i].ini < seg_out[i].fin
              /\ seg_out[i].fin = IF i < Len(seg_out) THEN seg_out[i + 1].ini
                                                      ELSE seg_n + 1
        /\ \A p \in CoveredPositions : Cardinality(SpansHolding(p)) = 1
        /\ \A p \in DroppedPositions \cap CoveredPositions :
              \E i \in SpansHolding(p) :
                  /\ seg_out[i].ini < p
                  /\ \A k \in 1..Len(kept) : kept[k].ini < p => kept[k].ini <= seg_out[i].ini

\* C26 witness: the candidates 45, 12, 46: the span of 45 runs over the
\* dropped 12 to the boundary of 46, whose span runs to the end.
C26_Witness ==
    /\ seg_pc = "done"
    /\ [i \in 1..Len(starts) |-> int(starts[i].num)] = <<45, 12, 46>>
    /\ [i \in 1..Len(seg_out) |-> <<seg_out[i].ini, seg_out[i].fin>>]
          = <<<<1, 3>>, <<3, 4>>>>

(***************************************************************************)
(* Layout events and the hierarchy builder                                 *)
(***************************************************************************)
\* Page numbers and top-y coordinates of the layout events of the model.
\* The y0 values let a question start lie 18 below a bold run's bottom
\* (within the gap), 558 below it (beyond the gap), and a bold run lie 80
\* above the bottom of the page (within the bottom margin).
PageNos == {1, 2}
Y0s == {100, 120, 700}

\* page.rect.height of every page, and the height of a bold run's bbox.
PageHeight == 792
LineHeight == 12

MAX_BISAGRA_TO_Q_GAP == 55
BOTTOM_PAGE_MARGIN == 120
TOP_NEXT_PAGE_SEARCH == 250

\* sort_key = (page_no, bbox.y0)
SortKeys == PageNos \X Y0s

\* Python's tuple comparison of two (page, y0) keys.
KeyLess(a, b) == a[1] < b[1] \/ (a[1] = b[1] /\ a[2] < b[2])
KeyLeq(a, b) == a = b \/ KeyLess(a, b)

\* Largest question number of a layout question start in the model
\* (RE_QSTART reads 1 to 4 digits, so 0 is one of them).
MaxQNum == 1
QNums == 0..MaxQNum

\* Most merged bold runs and most layout question starts of a document.
MaxBolds == 3
MaxQStarts == 3

\* sorted(items, key=sort_key): Python's sort is stable; an insertion sort
\* that places each item after the items whose key is not greater.
RECURSIVE InsertByKey(_, _)
InsertByKey(sorted, x) ==
    IF sorted = <<>> THEN <<x>>
    ELSE IF KeyLess(x.sort_key, sorted[Len(sorted)].sort_key)
         THEN Append(InsertByKey(SubSeq(sorted, 1, Len(sorted) - 1), x),
                     sorted[Len(sorted)])
         ELSE Append(sorted, x)

RECURSIVE SortedByKey(_)
SortedByKey(items) ==
    IF items = <<>> THEN <<>>
    ELSE InsertByKey(SortedByKey(SubSeq(items, 1, Len(items) - 1)),
                     items[Len(items)])

\* The keep test of filter_questions_by_continuity for a number, given last.
ContinuityKeeps_Strict(num, last) == last < 0 \/ num > last

ContinuityKeeps(num, last) == last < 0 \/ num >= last

\* The loop of filter_questions_by_continuity over sorted_qs from index i.
RECURSIVE ContinuityLoop(_, _, _, _)
ContinuityLoop(sorted_qs, i, last, filtered) ==
    IF i > Len(sorted_qs) THEN filtered
    ELSE IF ContinuityKeeps(sorted_qs[i].num, last)
         THEN ContinuityLoop(sorted_qs, i + 1, sorted_qs[i].num,
                             Append(filtered, sorted_qs[i]))
         ELSE ContinuityLoop(sorted_qs, i + 1, last, filtered)

filter_questions_by_continuity(all_qs) ==
    IF all_qs = <<>> THEN <<>>
    ELSE ContinuityLoop(SortedByKey(all_qs), 1, -1, <<>>)

\* build_hierarchy, the timeline: chapters, then hinges, then questions, in
\* one list sorted by sort_key.
Timeline(chapters, hinges, all_questions) ==
    SortedByKey(
        [i \in 1..Len(chapters) |->
            [kind |-> "chapter", sort_key |-> chapters[i].sort_key, num |-> None,
             text |-> chapters[i].text]]
        \o [i \in 1..Len(hinges) |->
            [kind |-> "hinge", sort_key |-> hinges[i].sort_key, num |-> None,
             text |-> hinges[i].text]]
        \o [i \in 1..Len(all_questions) |->
            [kind |-> "question", sort_key |-> all_questions[i].sort_key,
             num |-> all_questions[i].num, text |-> <<>>]])

\* fin_h: an open hinge is appended to the open chapter; cur_h becomes None.
\* The value is the chapter after the call (<<>> when none is open).
ChapterAfterFinH(ch, h) ==
    IF h # <<>> /\ ch # <<>>
    THEN <<[ch[1] EXCEPT !.hinges = Append(@, h[1])]>>
    ELSE ch

\* fin_ch without its fin_h: the open chapter is appended as it is.
ResultAfterFinCh_OpenHingeLost(res, ch, h) ==
    IF ch # <<>> THEN Append(res, ch[1]) ELSE res

\* fin_ch: fin_h, then the open chapter is appended to result.
ResultAfterFinCh(res, ch, h) ==
    IF ch # <<>> THEN Append(res, ChapterAfterFinH(ch, h)[1]) ELSE res

NewChapter(item) ==
    [page |-> item.sort_key[1], text |-> item.text, sort_key |-> item.sort_key,
     questions |-> <<>>, hinges |-> <<>>, questions_without_hinge |-> <<>>]

NewHinge(item) ==
    [page |-> item.sort_key[1], text |-> item.text, sort_key |-> item.sort_key,
     questions |-> <<>>]

\* The items of a list of layout items that lie on one page, in list order.
OnPage(items, page_no) == SelectSeq(items, LAMBDA x : x.sort_key[1] = page_no)

\* classify_bolds, the search of the same page: the first question start at
\* or below the run's bottom decides; it anchors the run when it lies within
\* MAX_BISAGRA_TO_Q_GAP.
SamePageAnchor(b_bottom, qstarts) ==
    LET below == {i \in 1..Len(qstarts) : ~(qstarts[i].sort_key[2] < b_bottom)}
    IN /\ below # {}
       /\ LET first == CHOOSE i \in below : \A j \in below : i <= j
          IN qstarts[first].sort_key[2] - b_bottom <= MAX_BISAGRA_TO_Q_GAP

\* classify_bolds, the search of the next page, made when the same page gave
\* no anchor, next_qstarts is not empty and the run lies within
\* BOTTOM_PAGE_MARGIN of the page's bottom.
NextPageAnchor(b_bottom, page_height, next_qstarts) ==
    /\ next_qstarts # <<>>
    /\ (page_height - b_bottom) <= BOTTOM_PAGE_MARGIN
    /\ \E i \in 1..Len(next_qstarts) :
          next_qstarts[i].sort_key[2] <= TOP_NEXT_PAGE_SEARCH

\* classify_bolds for one merged bold run: "chapter", "hinge" or "none".
ClassOfBold(b, qstarts, page_height, next_qstarts) ==
    IF b.excl THEN "none"
    ELSE IF b.roman THEN "chapter"
    ELSE IF \/ SamePageAnchor(b.sort_key[2] + b.height, qstarts)
            \/ NextPageAnchor(b.sort_key[2] + b.height, page_height, next_qstarts)
         THEN "hinge"
         ELSE "none"

\* run_extraction, FASE 3: classify_bolds over the pages in order, each page
\* with its own question starts and those of the next page (None after the
\* last page). The value is the events of one kind, in page and y0 order.
ClassifiedAs(kind, bolds, qs_raw, page_height) ==
    LET LastPage == CHOOSE p \in PageNos : \A q \in PageNos : q <= p
        next_qs(p) == IF p + 1 <= LastPage THEN OnPage(qs_raw, p + 1) ELSE <<>>
        hit(b) == ClassOfBold(b, OnPage(qs_raw, b.sort_key[1]), page_height,
                              next_qs(b.sort_key[1])) = kind
        chosen == SelectSeq(bolds, hit)
    IN [i \in 1..Len(chosen) |->
           [sort_key |-> chosen[i].sort_key, text |-> chosen[i].text]]

LastKey(events) ==
    IF events = <<>> THEN <<0, 0>> ELSE events[Len(events)].sort_key

KeysOf(events) == {events[i].sort_key : i \in 1..Len(events)}

RomanKeysOf(bolds) ==
    {bolds[i].sort_key : i \in {j \in 1..Len(bolds) : bolds[j].roman}}

HierInit ==
    /\ x_pc = "input"
    /\ merged_bolds = <<>>
    /\ all_chapters = <<>>
    /\ all_hinges = <<>>
    /\ all_qs_raw = <<>>
    /\ timeline = <<>>
    /\ tl_i = 0
    /\ result = <<>>
    /\ cur_ch = <<>>
    /\ cur_h = <<>>

\* The texts of the bold runs of the model, as sequences of words: a chapter
\* title and a run that is none.
BoldTexts == {<<"I.", "Medio", "Ambiente">>, <<"Ruido">>}

\* A word made of 1 to 10 of the letters IVXLCDM (either case) and a dot.
RomanLabels == {"I.", "II.", "III.", "IV.", "V.", "i.", "ii.", "iv.", "v."}

\* RE_ROMAN.match(txt): a roman numeral with its dot, whitespace, a title.
RE_ROMAN_match(txt) == Len(txt) >= 2 /\ txt[1] \in RomanLabels

\* run_extraction, FASE 1: merge_bold_lines gives the bold runs of a page in
\* y0 order, no two starting at the same y0, and the pages come in order. A
\* run is a roman-numeral heading or not, and intersects a table or figure
\* or not; a roman-numeral heading is no question start, a bold question
\* line is a bold run at the key of its question start.
AddBold ==
    /\ x_pc = "input"
    /\ Len(merged_bolds) < MaxBolds
    /\ \E k \in SortKeys, t \in BoldTexts, e \in BOOLEAN :
         /\ KeyLess(LastKey(merged_bolds), k)
         /\ RE_ROMAN_match(t) => k \notin KeysOf(all_qs_raw)
         /\ merged_bolds' =
                Append(merged_bolds,
                       [sort_key |-> k, height |-> LineHeight, text |-> t,
                        roman |-> RE_ROMAN_match(t), excl |-> e])
    /\ UNCHANGED <<x_pc, all_chapters, all_hinges, all_qs_raw, timeline, tl_i,
                   result, cur_ch, cur_h>>
    /\ UNCHANGED othersOfHier

\* run_extraction collects the layout question starts page by page, each
\* page's in y0 order (detect_qstarts_layout sorts them).
AddQStart ==
    /\ x_pc = "input"
    /\ Len(all_qs_raw) < MaxQStarts
    /\ \E k \in SortKeys, n \in QNums :
         /\ KeyLess(LastKey(all_qs_raw), k)
         /\ k \notin RomanKeysOf(merged_bolds)
         /\ all_qs_raw' =
                Append(all_qs_raw, [num |-> n, page |-> k[1], sort_key |-> k])
    /\ UNCHANGED <<x_pc, merged_bolds, all_chapters, all_hinges, timeline, tl_i,
                   result, cur_ch, cur_h>>
    /\ UNCHANGED othersOfHier

\* run_extraction, FASE 3: the bold runs are classified, the question starts
\* filtered, and build_hierarchy is entered: its timeline is built and
\* sorted.
BuildTimeline ==
    /\ x_pc = "input"
    /\ all_chapters' = ClassifiedAs("chapter", merged_bolds, all_qs_raw, PageHeight)
    /\ all_hinges' = ClassifiedAs("hinge", merged_bolds, all_qs_raw, PageHeight)
    /\ timeline' = Timeline(all_chapters', all_hinges',
                            filter_questions_by_continuity(all_qs_raw))
    /\ tl_i' = 1
    /\ result' = <<>>
    /\ cur_ch' = <<>>
    /\ cur_h' = <<>>
    /\ x_pc' = "fold"
    /\ UNCHANGED <<merged_bolds, all_qs_raw>>
    /\ UNCHANGED othersOfHier

FoldChapter ==
    /\ x_pc = "fold"
    /\ tl_i <= Len(timeline)
    /\ timeline[tl_i].kind = "chapter"
    /\ result' = ResultAfterFinCh(result, cur_ch, cur_h)
    /\ cur_ch' = <<NewChapter(timeline[tl_i])>>
    /\ cur_h' = <<>>
    /\ tl_i' = tl_i + 1
    /\ UNCHANGED <<x_pc, merged_bolds, all_chapters, all_hinges, all_qs_raw,
                   timeline>>
    /\ UNCHANGED othersOfHier

\* The hinge branch without its test of cur_ch.
FoldHinge_OpensWithoutChapter ==
    /\ x_pc = "fold"
    /\ tl_i <= Len(timeline)
    /\ timeline[tl_i].kind = "hinge"
    /\ cur_ch' = ChapterAfterFinH(cur_ch, cur_h)
    /\ cur_h' = <<NewHinge(timeline[tl_i])>>
    /\ tl_i' = tl_i + 1
    /\ UNCHANGED <<x_pc, merged_bolds, all_chapters, all_hinges, all_qs_raw,
                   timeline, result>>
    /\ UNCHANGED othersOfHier

FoldHinge ==
    /\ x_pc = "fold"
    /\ tl_i <= Len(timeline)
    /\ timeline[tl_i].kind = "hinge"
    /\ IF cur_ch = <<>>
       THEN UNCHANGED <<cur_ch, cur_h>>
       ELSE /\ cur_ch' = ChapterAfterFinH(cur_ch, cur_h)
            /\ cur_h' = <<NewHinge(timeline[tl_i])>>
    /\ tl_i' = tl_i + 1
    /\ UNCHANGED <<x_pc, merged_bolds, all_chapters, all_hinges, all_qs_raw,
                   timeline, result>>
    /\ UNCHANGED othersOfHier

\* The question branch with the chapter's own list written in both cases.
FoldQuestion_ChapterListAlways ==
    /\ x_pc = "fold"
    /\ tl_i <= Len(timeline)
    /\ timeline[tl_i].kind = "question"
    /\ LET qn == timeline[tl_i].num
       IN IF cur_ch = <<>>
          THEN UNCHANGED <<cur_ch, cur_h>>
          ELSE /\ cur_ch' =
                     <<[cur_ch[1] EXCEPT
                          !.questions = Append(@, qn),
                          !.questions_without_hinge = Append(@, qn)]>>
               /\ UNCHANGED cur_h
    /\ tl_i' = tl_i + 1
    /\ UNCHANGED <<x_pc, merged_bolds, all_chapters, all_hinges, all_qs_raw,
                   timeline, result>>
    /\ UNCHANGED othersOfHier

FoldQuestion ==
    /\ x_pc = "fold"
    /\ tl_i <= Len(timeline)
    /\ timeline[tl_i].kind = "question"
    /\ LET qn == timeline[tl_i].num
       IN IF cur_ch = <<>>
          THEN UNCHANGED <<cur_ch, cur_h>>
          ELSE IF cur_h # <<>>
          THEN /\ cur_ch' = <<[cur_ch[1] EXCEPT !.questions = Append(@, qn)]>>
               /\ cur_h' = <<[cur_h[1] EXCEPT !.questions = Append(@, qn)]>>
          ELSE /\ cur_ch' =
                     <<[cur_ch[1] EXCEPT
                          !.questions = Append(@, qn),
                          !.questions_without_hinge = Append(@, qn)]>>
               /\ UNCHANGED cur_h
    /\ tl_i' = tl_i + 1
    /\ UNCHANGED <<x_pc, merged_bolds, all_chapters, all_hinges, all_qs_raw,
                   timeline, result>>
    /\ UNCHANGED othersOfHier

\* The timeline is exhausted: the last fin_ch, and result is returned.
FoldEnd ==
    /\ x_pc = "fold"
    /\ tl_i > Len(timeline)
    /\ result' = ResultAfterFinCh(result, cur_ch, cur_h)
    /\ cur_ch' = <<>>
    /\ cur_h' = <<>>
    /\ x_pc' = "done"
    /\ UNCHANGED <<merged_bolds, all_chapters, all_hinges, all_qs_raw, timeline,
                   tl_i>>
    /\ UNCHANGED othersOfHier

HierNext ==
    \/ AddBold \/ AddQStart \/ BuildTimeline
    \/ FoldChapter \/ FoldHinge \/ FoldQuestion \/ FoldEnd

InitHier ==
    /\ HierInit
    /\ SegOff
    /\ AssocOff
    /\ FreqOff
    /\ JobOff
    /\ FirmaOff
    /\ CrossOff
    /\ ApiOff
    /\ RectOff

SpecHier == InitHier /\ [][HierNext]_vars

(***************************************************************************)
(* Claims about the hierarchy                                              *)
(***************************************************************************)
HingeQuestionsOf(ch) ==
    UNION {Range(ch.hinges[i].questions) : i \in 1..Len(ch.hinges)}

\* C1: in the hierarchy build_hierarchy returns, no chapter's
\* questions_without_hinge list shares a question number with the questions
\* lists of that chapter's hinges.
C1_NoHingeListsDisjoint ==
    x_pc = "done" =>
        \A c \in 1..Len(result) :
            Range(result[c].questions_without_hinge)
                \cap HingeQuestionsOf(result[c]) = {}

(***************************************************************************)
(* Artifact association (run_extraction, FASE 4 and dets_by_q)             *)
(***************************************************************************)
\* Most detected regions of a document.
MaxDets == 2

\* Top-y coordinates of the detected regions: above the first line of a page,
\* at the y0 of a line, between two lines.
RegionY0s == {50, 100, 400}

Tipos == {"tabla", "figura"}

\* Tables come before figures among the detections of one page.
TipoRank(tipo) == IF tipo = "tabla" THEN 1 ELSE 2

DigitChar(d) == <<"0", "1", "2", "3", "4", "5", "6", "7", "8", "9">>[d + 1]

\* str(n) for n >= 0, as a sequence of characters.
RECURSIVE Digits(_)
Digits(n) ==
    IF n < 10 THEN <<DigitChar(n)>>
    ELSE Append(Digits(n \div 10), DigitChar(n % 10))

\* f"{n:03d}": the decimal digits of n, padded with zeros to 3 characters.
Fmt03d(n) ==
    LET d == Digits(n)
    IN IF Len(d) >= 3 THEN d ELSE [i \in 1..(3 - Len(d)) |-> "0"] \o d

\* q_label of a detection whose owner is parent_q.
QLabel(parent_q) == IF parent_q # None THEN Fmt03d(parent_q) ELSE <<"0", "0", "0">>

\* The key of part_counters for a detection.
PartKey_ByOwner(parent_q, q_label, tipo) ==
    <<IF parent_q # None THEN q_label ELSE <<"N", "o", "n", "e">>, tipo>>

PartKey(parent_q, q_label, tipo) == <<q_label, tipo>>

\* f"p{q_label}_parte{parte:03d}_{tipo}.png"
FileName_NoLabel(q_label, parte, tipo) ==
    <<"p", "_parte">> \o Fmt03d(parte) \o <<"_", tipo, ".png">>

FileName(q_label, parte, tipo) ==
    <<"p">> \o q_label \o <<"_parte">> \o Fmt03d(parte) \o <<"_", tipo, ".png">>

\* part_counters[key] of a defaultdict(int), and the dict after += 1.
CountOf(counters, key) == IF key \in DOMAIN counters THEN counters[key] ELSE 0

Incremented(counters, key) ==
    [k \in (DOMAIN counters) \cup {key} |->
        IF k = key THEN CountOf(counters, key) + 1 ELSE counters[k]]

\* bisect.bisect_right(a, x) between lo and hi (0-based, as in the library):
\* the binary search that moves hi down when x < a[mid], lo up otherwise.
RECURSIVE BisectLeftLoop(_, _, _, _)
BisectLeftLoop(a, x, lo, hi) ==
    IF lo < hi
    THEN LET mid == (lo + hi) \div 2
         IN IF KeyLess(a[mid + 1], x)
            THEN BisectLeftLoop(a, x, mid + 1, hi)
            ELSE BisectLeftLoop(a, x, lo, mid)
    ELSE lo

RECURSIVE BisectRightLoop(_, _, _, _)
BisectRightLoop(a, x, lo, hi) ==
    IF lo < hi
    THEN LET mid == (lo + hi) \div 2
         IN IF KeyLess(x, a[mid + 1])
            THEN BisectRightLoop(a, x, lo, mid)
            ELSE BisectRightLoop(a, x, mid + 1, hi)
    ELSE lo

bisect_right_AsLeft(a, x) == BisectLeftLoop(a, x, 0, Len(a))

bisect_right(a, x) == BisectRightLoop(a, x, 0, Len(a))

find_parent_question(keys, qs, page, y0) ==
    LET idx == bisect_right(keys, <<page, y0>>) - 1
    IN IF idx >= 0 THEN qs[idx + 1].num ELSE None

\* part_counters at the entry of FASE 4, whatever an earlier run left.
FreshPartCounters_Kept(earlier) == earlier

FreshPartCounters(earlier) == <<>>

\* The detections as FASE 1 builds them: no owner, part or file name yet.
Unassigned(dets) ==
    [i \in 1..Len(dets) |->
        [dets[i] EXCEPT !.pregunta = None, !.parte = None, !.png = <<>>]]

\* dets_by_q of FASE 5: the owned detections, grouped by owner in list order.
DetsByQ(dets) ==
    LET owners == {dets[i].pregunta : i \in 1..Len(dets)} \ {None}
        entry(d) == [tipo |-> d.tipo, parte |-> d.parte, png |-> d.png]
        owned(q) == SelectSeq(dets, LAMBDA d : d.pregunta = q)
    IN [q \in owners |-> [i \in 1..Len(owned(q)) |-> entry(owned(q)[i])]]

\* What one run hands on: the detections with owner, part and file name, the
\* lists per question, and the names it wrote.
RunOutput == [dets |-> all_detections, by_q |-> dets_by_q, wrote |-> png_written]

AssocInit ==
    /\ include_png \in BOOLEAN
    /\ all_detections = <<>>
    /\ all_qs_filtered = <<>>
    /\ sort_keys = <<>>
    /\ qs_sorted = <<>>
    /\ det_i = 0
    /\ part_counters = <<>>
    /\ png_dir = {}
    /\ png_written = <<>>
    /\ dets_by_q = <<>>
    /\ run_no = 1
    /\ prev_out = <<>>

LastDetRank(dets) ==
    IF dets = <<>> THEN <<0, 0>>
    ELSE <<dets[Len(dets)].page, TipoRank(dets[Len(dets)].tipo)>>

\* run_extraction, FASE 1: the tables of a page, then its figures, join
\* all_detections, page after page.
AddDetection ==
    /\ x_pc = "input"
    /\ Len(all_detections) < MaxDets
    /\ \E pg \in PageNos, y \in RegionY0s, t \in Tipos :
         /\ KeyLeq(LastDetRank(all_detections), <<pg, TipoRank(t)>>)
         /\ all_detections' =
                Append(all_detections,
                       [tipo |-> t, page |-> pg, y0 |-> y, pregunta |-> None,
                        parte |-> None, png |-> <<>>])
    /\ UNCHANGED <<include_png, all_qs_filtered, sort_keys, qs_sorted, det_i,
                   part_counters, png_dir, png_written, dets_by_q, run_no,
                   prev_out>>
    /\ UNCHANGED <<x_pc, all_qs_raw>>
    /\ UNCHANGED othersOfAssoc

\* run_extraction up to the loop of FASE 4: the question starts are filtered
\* and sorted, part_counters is a new defaultdict.
StartAssoc ==
    /\ x_pc = "input"
    /\ all_qs_filtered' = filter_questions_by_continuity(all_qs_raw)
    /\ qs_sorted' = SortedByKey(all_qs_filtered')
    /\ sort_keys' = [i \in 1..Len(qs_sorted') |->
                        <<qs_sorted'[i].page, qs_sorted'[i].sort_key[2]>>]
    /\ part_counters' = FreshPartCounters(part_counters)
    /\ det_i' = 1
    /\ x_pc' = "assoc"
    /\ UNCHANGED <<include_png, all_detections, png_dir, png_written, dets_by_q,
                   run_no, prev_out>>
    /\ UNCHANGED all_qs_raw
    /\ UNCHANGED othersOfAssoc

\* One iteration of the loop of FASE 4 over all_detections.
AssocStep ==
    /\ x_pc = "assoc"
    /\ det_i <= Len(all_detections)
    /\ LET det == all_detections[det_i]
           parent_q == find_parent_question(sort_keys, qs_sorted, det.page, det.y0)
           q_label == QLabel(parent_q)
           key == PartKey(parent_q, q_label, det.tipo)
           parte == CountOf(part_counters, key) + 1
           fname == FileName(q_label, parte, det.tipo)
       IN /\ part_counters' = Incremented(part_counters, key)
          /\ all_detections' =
                 [all_detections EXCEPT ![det_i] =
                     [@ EXCEPT !.pregunta = parent_q, !.parte = parte,
                               !.png = fname]]
          /\ IF include_png
             THEN /\ png_dir' = png_dir \cup {fname}
                  /\ png_written' = Append(png_written, fname)
             ELSE UNCHANGED <<png_dir, png_written>>
    /\ det_i' = det_i + 1
    /\ UNCHANGED <<include_png, all_qs_filtered, sort_keys, qs_sorted, dets_by_q,
                   run_no, prev_out>>
    /\ UNCHANGED <<x_pc, all_qs_raw>>
    /\ UNCHANGED othersOfAssoc

\* The loop of FASE 4 is over; FASE 5 groups the owned detections by owner.
AssocEnd ==
    /\ x_pc = "assoc"
    /\ det_i > Len(all_detections)
    /\ dets_by_q' = DetsByQ(all_detections)
    /\ x_pc' = "done"
    /\ UNCHANGED <<include_png, all_detections, all_qs_filtered, sort_keys,
                   qs_sorted, det_i, part_counters, png_dir, png_written, run_no,
                   prev_out>>
    /\ UNCHANGED all_qs_raw
    /\ UNCHANGED othersOfAssoc

\* run_extraction is called again on the same document and configuration:
\* FASE 1 builds the same detections and question starts anew, the files of
\* the first run are still in outputs_png.
RunAgain ==
    /\ x_pc = "done"
    /\ run_no = 1
    /\ prev_out' = <<RunOutput>>
    /\ run_no' = 2
    /\ all_detections' = Unassigned(all_detections)
    /\ all_qs_filtered' = <<>>
    /\ sort_keys' = <<>>
    /\ qs_sorted' = <<>>
    /\ det_i' = 0
    /\ dets_by_q' = <<>>
    /\ png_written' = <<>>
    /\ x_pc' = "input"
    /\ UNCHANGED <<include_png, part_counters, png_dir>>
    /\ UNCHANGED all_qs_raw
    /\ UNCHANGED othersOfAssoc

AssocNext ==
    \/ (run_no = 1 /\ AddQStart)
    \/ (run_no = 1 /\ AddDetection)
    \/ StartAssoc \/ AssocStep \/ AssocEnd \/ RunAgain

InitAssoc ==
    /\ AssocInit
    /\ HierInit
    /\ SegOff
    /\ FreqOff
    /\ JobOff
    /\ FirmaOff
    /\ CrossOff
    /\ ApiOff
    /\ RectOff

SpecAssoc == InitAssoc /\ [][AssocNext]_vars

(***************************************************************************)
(* Claims about the artifact association                                   *)
(***************************************************************************)
\* The detections the loop of FASE 4 has gone through in this run.
Processed == {i \in 1..Len(all_detections) : all_detections[i].png # <<>>}

EntryOf(d) == [tipo |-> d.tipo, parte |-> d.parte, png |-> d.png]

\* The question numbers under which dets_by_q lists the entry of detection i.
ListedUnder(i) ==
    {q \in DOMAIN dets_by_q :
        \E k \in 1..Len(dets_by_q[q]) : dets_by_q[q][k] = EntryOf(all_detections[i])}

\* C4: after the association every detected region has at most one owning
\* question: its owner is null or the number of one kept question start, and
\* the lists per question hold its entry under that owner and under no other
\* number.
C4_OneOwnerPerRegion ==
    x_pc = "done" =>
        \A i \in 1..Len(all_detections) :
            LET o == all_detections[i].pregunta
            IN /\ o = None \/ \E k \in 1..Len(all_qs_filtered) : all_qs_filtered[k].num = o
               /\ ListedUnder(i) = IF o = None THEN {} ELSE {o}

\* C4 witness: two regions of the same kind, each the first of its own
\* question, after the association.
C4_Witness ==
    /\ x_pc = "done"
    /\ Len(all_detections) = 2
    /\ all_detections[1].tipo = all_detections[2].tipo
    /\ all_detections[1].pregunta = 0
    /\ all_detections[2].pregunta = 1
    /\ all_detections[1].parte = 1
    /\ all_detections[2].parte = 1

\* The parte indices, in processing order, of the regions of kind tipo whose
\* owner is o (a question number or None).
PartesOf(o, tipo) ==
    LET mine == SelectSeq(all_detections,
                          LAMBDA d : d.pregunta = o /\ d.tipo = tipo)
    IN [i \in 1..Len(mine) |-> mine[i].parte]

\* C5: for every owner (a question number, or none) and every kind, the parte
\* indices of that owner's regions of that kind are 1, 2, ..., k in processing
\* order; the unowned regions are counted apart from every question.
C5_PartesContiguousPerOwner ==
    (x_pc = "done" /\ run_no = 1) =>
        \A o \in QNums \cup {None}, tipo \in Tipos :
            PartesOf(o, tipo) = [i \in 1..Len(PartesOf(o, tipo)) |-> i]

\* The owner by the reference: the number of the last question start, in
\* sort order, whose key is <= (page, y0); None when there is none.
ReferenceOwner(qs, page, y0) ==
    LET below == {i \in 1..Len(qs) :
                     KeyLeq(<<qs[i].page, qs[i].sort_key[2]>>, <<page, y0>>)}
    IN IF below = {} THEN None
       ELSE qs[CHOOSE i \in below : \A j \in below : j <= i].num

\* C6: the owner find_parent_question gives a region is the number of the last
\* question start, in (page, y0) order, whose key is <= the region's key, and
\* null for a region before the first question start or without any.
C6_OwnerIsLastStartAtOrBefore ==
    x_pc \in {"assoc", "done"} =>
        \A i \in Processed :
            all_detections[i].pregunta =
                ReferenceOwner(qs_sorted, all_detections[i].page, all_detections[i].y0)

\* C6 witness: a region at the very key of the second question start is owned
\* by that question, a region above the first start is unowned.
C6_Witness ==
    /\ x_pc = "done"
    /\ Len(qs_sorted) = 2
    /\ Len(all_detections) = 2
    /\ all_detections[1].pregunta = None
    /\ all_detections[2].pregunta = qs_sorted[2].num
    /\ <<all_detections[2].page, all_detections[2].y0>> = sort_keys[2]
    /\ qs_sorted[1].num # qs_sorted[2].num

\* C8: within one run no two regions get the same export file name, so every
\* PNG the run writes goes to a file name the run has not written before.
C8_FileNamesDistinct ==
    /\ \A i, j \in Processed :
          i # j => all_detections[i].png # all_detections[j].png
    /\ \A i, j \in 1..Len(png_written) : i # j => png_written[i] # png_written[j]
    /\ include_png => Len(png_written) = Cardinality(Processed)

\* C8 witness: an unowned table and a table of question 0, both labelled 000,
\* have been written to two files.
C8_Witness ==
    /\ x_pc = "done"
    /\ include_png
    /\ Len(png_written) = 2
    /\ all_detections[1].tipo = "tabla"
    /\ all_detections[2].tipo = "tabla"
    /\ all_detections[1].pregunta = None
    /\ all_detections[2].pregunta = 0

MaxPages == 4
MaxLines == 2

\* The text lines of the model, as sequences of characters: an empty line, a
\* line, the same line after an indent, a line that is only a page number.
Lines == {<<>>, <<"a">>, <<" ", "a">>, <<"7">>}

IsSpace(ch) == ch = " "

IsDigit(ch) == ch \in {"0", "1", "2", "3", "4", "5", "6", "7", "8", "9"}

\* str.strip(): the line without its leading and trailing whitespace.
RECURSIVE lstrip(_)
lstrip(ln) ==
    IF ln # <<>> /\ IsSpace(Head(ln)) THEN lstrip(Tail(ln)) ELSE ln

RECURSIVE rstrip(_)
rstrip(ln) ==
    IF ln # <<>> /\ IsSpace(ln[Len(ln)]) THEN rstrip(SubSeq(ln, 1, Len(ln) - 1)) ELSE ln

strip(ln) == rstrip(lstrip(ln))

\* The phrases of FRASES_RUIDO; a line holds one as a single element.
FRASES_RUIDO ==
    {"Para validar las firmas de este documento", "sea.gob.cl/validar",
     "validar las firmas", "https://validador.sea.gob.cl/validar",
     "Firmado Digitalmente", "sellodigital.sea.gob.cl", "Razón:", "Razon:"}

ContainsNoise(s) == \E i \in 1..Len(s) : s[i] \in FRASES_RUIDO

\* re.fullmatch(r"\d{1,4}", s)
IsPageNumber(s) == Len(s) \in 1..4 /\ \A i \in 1..Len(s) : IsDigit(s[i])

\* set(ln.strip() for ln in lines if ln.strip())
StrippedSet(lines) == {strip(lines[i]) : i \in 1..Len(lines)} \ {<<>>}

\* The Counter c after the loop over the pages: line -> number of pages on
\* which it occurs.
PageCount(pages) ==
    LET seen == UNION {StrippedSet(pages[p]) : p \in 1..Len(pages)}
    IN [ln \in seen |-> Cardinality({p \in 1..Len(pages) : ln \in StrippedSet(pages[p])})]

MIN_RATIO_FRECUENTES_PCT == 60

\* int(n * 0.60): the product truncated to an integer.
IntOfRatio(n) == (n * MIN_RATIO_FRECUENTES_PCT) \div 100

Threshold(n) == Max(2, IntOfRatio(n))

RECURSIVE clean_page_lines_keep_empty(_, _)
clean_page_lines_keep_empty(lines, frequent) ==
    IF lines = <<>> THEN <<>>
    ELSE LET s == strip(Head(lines))
             rest == clean_page_lines_keep_empty(Tail(lines), frequent)
         IN IF s = <<>> THEN <<s>> \o rest
            ELSE IF s \in frequent THEN rest
            ELSE IF ContainsNoise(s) THEN rest
            ELSE IF IsPageNumber(s) THEN rest
            ELSE <<s>> \o rest

FreqInit ==
    /\ f_pc = "input"
    /\ pages_lines = <<>>
    /\ c_count = <<>>
    /\ threshold = 0
    /\ frequent_lines = {}
    /\ pages_clean_lines = <<>>

\* normalize_lines_keep_empty of one more page: a page without lines joins
\* pages_lines, or a line joins the last page.
AddPage ==
    /\ f_pc = "input"
    /\ Len(pages_lines) < MaxPages
    /\ pages_lines' = Append(pages_lines, <<>>)
    /\ UNCHANGED <<f_pc, c_count, threshold, frequent_lines, pages_clean_lines>>
    /\ UNCHANGED othersOfFreq

AddLine ==
    /\ f_pc = "input"
    /\ pages_lines # <<>>
    /\ Len(pages_lines[Len(pages_lines)]) < MaxLines
    /\ \E ln \in Lines :
         pages_lines' = [pages_lines EXCEPT ![Len(pages_lines)] = Append(@, ln)]
    /\ UNCHANGED <<f_pc, c_count, threshold, frequent_lines, pages_clean_lines>>
    /\ UNCHANGED othersOfFreq

\* build_frequent_line_filter(pages_lines)
BuildFilter ==
    /\ f_pc = "input"
    /\ pages_lines # <<>>
    /\ c_count' = PageCount(pages_lines)
    /\ threshold' = Threshold(Len(pages_lines))
    /\ frequent_lines' = {ln \in DOMAIN c_count' : c_count'[ln] >= threshold'}
    /\ f_pc' = "built"
    /\ UNCHANGED <<pages_lines, pages_clean_lines>>
    /\ UNCHANGED othersOfFreq

\* pages_clean_lines = [clean_page_lines_keep_empty(lines, frequent_lines) ...]
CleanPages ==
    /\ f_pc = "built"
    /\ pages_clean_lines' =
           [p \in 1..Len(pages_lines) |->
               clean_page_lines_keep_empty(pages_lines[p], frequent_lines)]
    /\ f_pc' = "done"
    /\ UNCHANGED <<pages_lines, c_count, threshold, frequent_lines>>
    /\ UNCHANGED othersOfFreq

FreqNext == AddPage \/ AddLine \/ BuildFilter \/ CleanPages

InitFreq ==
    /\ FreqInit
    /\ SegOff
    /\ HierOff
    /\ AssocOff
    /\ JobOff
    /\ FirmaOff
    /\ CrossOff
    /\ ApiOff
    /\ RectOff

SpecFreq == InitFreq /\ [][FreqNext]_vars

\* Smallest integer that is >= pct * n / 100.
CeilOfRatio(n, pct) == (n * pct + 99) \div 100

\* C7: for every page count N >= 1 a trimmed non-empty line is marked frequent,
\* and so removed from every page, only if it occurs on at least
\* max(2, ceil(0.60 * N)) distinct pages.
C7_FrequentOnlyAtCeilThreshold ==
    f_pc \in {"built", "done"} =>
        \A ln \in frequent_lines :
            Cardinality({p \in 1..Len(pages_lines) :
                            \E i \in 1..Len(pages_lines[p]) : strip(pages_lines[p][i]) = ln})
                >= Max(2, CeilOfRatio(Len(pages_lines), 60))

(***************************************************************************)
(* Job lifecycle: POST and DELETE /v1/jobs, process_job, run_extraction's  *)
(* file accesses, the cleanup script                                        *)
(***************************************************************************)
\* The files save_outputs writes, and those of run_classification.
ExtractionFiles ==
    {"texto_total.txt", "preguntas.json", "preguntas.txt", "chapters_hinges.json"}

ClassificationFiles ==
    {"preguntas_clasificadas.json", "preguntas_clasificadas_detalle.json"}

PNG_DIRNAME == "outputs_png"

ZipName == "outputs_png.zip"

\* update_job: the fields given replace those of the row.
Updated(row, fields) ==
    [k \in DOMAIN row |-> IF k \in DOMAIN fields THEN fields[k] ELSE row[k]]

\* A new row; error_len is the length of error_message (0 for None).
NewJob ==
    [status |-> "queued", stage |-> "queued", progress |-> 0, error_code |-> "",
     error_len |-> 0]

\* mark_failed keeps the first 3900 characters of the message.
ERROR_MESSAGE_MAX == 3900

\* The lengths of str(exc) in the model: empty, at the limit, beyond it.
MsgLens == {0, ERROR_MESSAGE_MAX, ERROR_MESSAGE_MAX + 1}

\* mark_failed with the message stored whole.
mark_failed_Untruncated(row, error_code, msg_len) ==
    Updated(row, [status |-> "failed", stage |-> "finalizing", progress |-> 100,
                  error_code |-> error_code, error_len |-> msg_len])

\* mark_failed: error_message[:3900]
mark_failed(row, error_code, msg_len) ==
    Updated(row, [status |-> "failed", stage |-> "finalizing", progress |-> 100,
                  error_code |-> error_code,
                  error_len |-> IF msg_len > ERROR_MESSAGE_MAX THEN ERROR_MESSAGE_MAX
                                                               ELSE msg_len])

Raised(type, at) == <<[type |-> type, at |-> at]>>

JobInit ==
    /\ job = <<>>
    /\ due = FALSE
    /\ artifacts = {}
    /\ queue = 0
    /\ fs_job_dir = FALSE
    /\ fs_input = FALSE
    /\ fs_out_dir = FALSE
    /\ fs_files = {}
    /\ direct = FALSE
    /\ w_pc = "idle"
    /\ w_args = <<>>
    /\ w_exc = <<>>
    /\ w_ret = ""
    /\ w_touched = FALSE
    /\ c_pc = "idle"
    /\ d_pc = "idle"

Untouched ==
    /\ job = <<>>
    /\ ~direct
    /\ w_pc = "idle"
    /\ w_ret = ""
    /\ d_pc = "idle"
    /\ ~fs_job_dir

\* POST /v1/jobs with an accepted upload: the PDF is saved, the row is
\* created, the task is sent (or the send fails and the job is marked failed).
CreateJob ==
    /\ Untouched
    /\ \E classify \in BOOLEAN, png \in BOOLEAN, sent \in BOOLEAN :
         /\ w_args' = [classify |-> classify, include_png |-> png]
         /\ IF sent
            THEN /\ job' = <<NewJob>>
                 /\ queue' = queue + 1
            ELSE /\ \E n \in MsgLens : job' = <<mark_failed(NewJob, "QUEUE_ERROR", n)>>
                 /\ UNCHANGED queue
    /\ fs_job_dir' = TRUE
    /\ fs_out_dir' = TRUE
    /\ fs_input' = TRUE
    /\ UNCHANGED <<due, artifacts, fs_files, direct, w_pc, w_exc, w_ret, w_touched,
                   c_pc, d_pc>>
    /\ UNCHANGED othersOfJob

\* run_extraction(pdf_path, out_dir, include_png) called by another caller
\* than process_job, on a PDF path and an output directory that exist or not.
DirectCall ==
    /\ Untouched
    /\ \E pdf \in BOOLEAN, outd \in BOOLEAN, png \in BOOLEAN :
         /\ fs_input' = pdf
         /\ fs_job_dir' = TRUE
         /\ fs_out_dir' = outd
         /\ w_args' = [classify |-> FALSE, include_png |-> png]
    /\ direct' = TRUE
    /\ w_pc' = "x_check"
    /\ UNCHANGED <<job, due, artifacts, queue, fs_files, w_exc, w_ret, w_touched,
                   c_pc, d_pc>>
    /\ UNCHANGED othersOfJob

\* The clock passes the job's expires_at.
Expire ==
    /\ job # <<>>
    /\ ~due
    /\ due' = TRUE
    /\ UNCHANGED <<job, artifacts, queue, fs_job_dir, fs_input, fs_out_dir, fs_files,
                   direct, w_pc, w_args, w_exc, w_ret, w_touched, c_pc, d_pc>>
    /\ UNCHANGED othersOfJob

\* process_job: the task starts and reads the job.
WGetJob ==
    /\ w_pc = "idle"
    /\ queue > 0
    /\ queue' = queue - 1
    /\ w_exc' = <<>>
    /\ w_touched' = FALSE
    /\ IF job = <<>>
       THEN /\ w_ret' = "missing"
            /\ UNCHANGED w_pc
       ELSE /\ w_pc' = "mark_running"
            /\ UNCHANGED w_ret
    /\ UNCHANGED <<job, due, artifacts, fs_job_dir, fs_input, fs_out_dir, fs_files,
                   direct, w_args, c_pc, d_pc>>
    /\ UNCHANGED othersOfJob

\* A job_service.update_job of the worker from position pc: the row is
\* rewritten and the worker moves on, or the row is gone and the commit raises.
WUpdate(pc, fields, next) ==
    /\ w_pc = pc
    /\ IF job = <<>>
       THEN /\ w_exc' = Raised("Exception", pc)
            /\ w_pc' = "except"
            /\ UNCHANGED job
       ELSE /\ job' = <<Updated(job[1], fields)>>
            /\ w_pc' = next
            /\ UNCHANGED w_exc
    /\ UNCHANGED <<due, artifacts, queue, fs_job_dir, fs_input, fs_out_dir, fs_files,
                   direct, w_args, w_touched, c_pc, d_pc>>
    /\ UNCHANGED othersOfJob

WMarkRunning ==
    /\ UNCHANGED w_ret
    /\ WUpdate("mark_running",
               [status |-> "running", stage |-> "extracting", progress |-> 5,
                error_code |-> "", error_len |-> 0],
               "mkdir")

\* out_dir.mkdir(parents=True, exist_ok=True)
WMkdir ==
    /\ w_pc = "mkdir"
    /\ fs_job_dir' = TRUE
    /\ fs_out_dir' = TRUE
    /\ w_touched' = (w_touched \/ ~fs_out_dir)
    /\ w_pc' = "x_check"
    /\ UNCHANGED <<job, due, artifacts, queue, fs_input, fs_files, direct, w_args,
                   w_exc, w_ret, c_pc, d_pc>>
    /\ UNCHANGED othersOfJob

\* run_extraction: the test of pdf_path.exists(), then fitz.open.
XCheck ==
    /\ w_pc = "x_check"
    /\ IF ~fs_input
       THEN /\ w_exc' = Raised("FileNotFoundError", "run_extraction")
            /\ w_pc' = "except"
       ELSE \E opened \in BOOLEAN :
               IF opened
               THEN /\ w_pc' = "x_png"
                    /\ UNCHANGED w_exc
               ELSE /\ w_exc' = Raised("Exception", "run_extraction")
                    /\ w_pc' = "except"
    /\ UNCHANGED <<job, due, artifacts, queue, fs_job_dir, fs_input, fs_out_dir,
                   fs_files, direct, w_args, w_ret, w_touched, c_pc, d_pc>>
    /\ UNCHANGED othersOfJob

\* run_extraction, FASE 4: with include_png, every detection is written to
\* out_dir/outputs_png (save_bbox_screenshot creates the directories).
XPng ==
    /\ w_pc = "x_png"
    /\ \E detections \in BOOLEAN :
         IF w_args.include_png /\ detections
         THEN /\ fs_job_dir' = TRUE
              /\ fs_out_dir' = TRUE
              /\ fs_files' = fs_files \cup {PNG_DIRNAME}
              /\ w_touched' = TRUE
         ELSE UNCHANGED <<fs_job_dir, fs_out_dir, fs_files, w_touched>>
    /\ w_pc' = "x_save"
    /\ UNCHANGED <<job, due, artifacts, queue, fs_input, direct, w_args, w_exc, w_ret,
                   c_pc, d_pc>>
    /\ UNCHANGED othersOfJob

\* run_extraction: save_outputs, then the return to the caller.
XSave ==
    /\ w_pc = "x_save"
    /\ fs_job_dir' = TRUE
    /\ fs_out_dir' = TRUE
    /\ fs_files' = fs_files \cup ExtractionFiles
    /\ w_touched' = TRUE
    /\ IF direct
       THEN /\ w_pc' = "idle"
            /\ w_ret' = "returned"
       ELSE /\ w_pc' = "classifying"
            /\ UNCHANGED w_ret
    /\ UNCHANGED <<job, due, artifacts, queue, fs_input, direct, w_args, w_exc, c_pc,
                   d_pc>>
    /\ UNCHANGED othersOfJob

WClassifying ==
    /\ UNCHANGED w_ret
    /\ WUpdate("classifying", [stage |-> "classifying", progress |-> 70], "classify")

\* run_classification when classify is set.
WClassify ==
    /\ w_pc = "classify"
    /\ IF ~w_args.classify
       THEN /\ w_pc' = "finalizing"
            /\ UNCHANGED <<fs_job_dir, fs_out_dir, fs_files, w_exc, w_touched>>
       ELSE IF "preguntas.json" \notin fs_files
       THEN /\ w_exc' = Raised("FileNotFoundError", "run_classification")
            /\ w_pc' = "except"
            /\ UNCHANGED <<fs_job_dir, fs_out_dir, fs_files, w_touched>>
       ELSE \E classified \in BOOLEAN :
               IF classified
               THEN /\ fs_job_dir' = TRUE
                    /\ fs_out_dir' = TRUE
                    /\ fs_files' = fs_files \cup ClassificationFiles
                    /\ w_touched' = TRUE
                    /\ w_pc' = "finalizing"
                    /\ UNCHANGED w_exc
               ELSE /\ w_exc' = Raised("Exception", "run_classification")
                    /\ w_pc' = "except"
                    /\ UNCHANGED <<fs_job_dir, fs_out_dir, fs_files, w_touched>>
    /\ UNCHANGED <<job, due, artifacts, queue, fs_input, direct, w_args, w_ret, c_pc,
                   d_pc>>
    /\ UNCHANGED othersOfJob

WFinalizing ==
    /\ UNCHANGED w_ret
    /\ WUpdate("finalizing", [stage |-> "finalizing", progress |-> 90], "zip")

\* make_outputs_zip(out_dir) if include_png; writing the archive may raise.
WZip ==
    /\ w_pc = "zip"
    /\ IF w_args.include_png /\ PNG_DIRNAME \in fs_files
       THEN \E zipped \in BOOLEAN :
               IF zipped
               THEN /\ fs_files' = fs_files \cup {ZipName}
                    /\ w_touched' = TRUE
                    /\ w_pc' = "del_arts"
                    /\ UNCHANGED w_exc
               ELSE /\ w_exc' = Raised("Exception", "make_outputs_zip")
                    /\ w_pc' = "except"
                    /\ UNCHANGED <<fs_files, w_touched>>
       ELSE /\ w_pc' = "del_arts"
            /\ UNCHANGED <<fs_files, w_touched, w_exc>>
    /\ UNCHANGED <<job, due, artifacts, queue, fs_job_dir, fs_input, fs_out_dir,
                   direct, w_args, w_ret, c_pc, d_pc>>
    /\ UNCHANGED othersOfJob

\* job_service.delete_artifacts(db, job_id=job.id)
WDeleteArtifacts ==
    /\ w_pc = "del_arts"
    /\ artifacts' = {}
    /\ w_pc' = "add_arts"
    /\ UNCHANGED <<job, due, queue, fs_job_dir, fs_input, fs_out_dir, fs_files,
                   direct, w_args, w_exc, w_ret, w_touched, c_pc, d_pc>>
    /\ UNCHANGED othersOfJob

\* The files process_job registers: those of its list that exist.
ArtifactFiles ==
    (ExtractionFiles
        \cup (IF w_args.classify THEN ClassificationFiles ELSE {})
        \cup (IF w_args.include_png THEN {ZipName} ELSE {}))
    \cap fs_files

\* The loop of add_artifact over artifact_files: all the files are
\* registered, or a call raises after some of them were (the row of the job
\* is gone, or stat, sha256_file or the commit fails).
WAddArtifacts ==
    /\ w_pc = "add_arts"
    /\ IF ArtifactFiles # {} /\ job = <<>>
       THEN /\ w_exc' = Raised("Exception", "add_artifact")
            /\ w_pc' = "except"
            /\ UNCHANGED artifacts
       ELSE \E registered \in {ArtifactFiles, ArtifactFiles \cap ExtractionFiles, {}} :
               /\ artifacts' = artifacts \cup registered
               /\ IF registered = ArtifactFiles
                  THEN /\ w_pc' = "mark_done"
                       /\ UNCHANGED w_exc
                  ELSE /\ w_exc' = Raised("Exception", "add_artifact")
                       /\ w_pc' = "except"
    /\ UNCHANGED <<job, due, queue, fs_job_dir, fs_input, fs_out_dir, fs_files,
                   direct, w_args, w_ret, w_touched, c_pc, d_pc>>
    /\ UNCHANGED othersOfJob

WMarkDone ==
    /\ w_ret' = IF job = <<>> THEN w_ret ELSE "done"
    /\ WUpdate("mark_done",
               [status |-> "done", stage |-> "finalizing", progress |-> 100],
               "idle")

\* The except clauses without their mark_failed.
WExcept_NoMark ==
    /\ w_pc = "except"
    /\ w_pc' = "idle"
    /\ w_ret' = IF direct THEN "raised" ELSE "failed"
    /\ UNCHANGED <<job, due, artifacts, queue, fs_job_dir, fs_input, fs_out_dir,
                   fs_files, direct, w_args, w_exc, w_touched, c_pc, d_pc>>
    /\ UNCHANGED othersOfJob

\* The except clauses of process_job; a direct caller gets the exception.
WExcept ==
    /\ w_pc = "except"
    /\ w_pc' = "idle"
    /\ IF direct
       THEN /\ w_ret' = "raised"
            /\ UNCHANGED job
       ELSE /\ w_ret' = "failed"
            /\ IF job = <<>>
               THEN UNCHANGED job
               ELSE \E n \in MsgLens :
                       job' = <<mark_failed(job[1],
                                            IF w_exc[1].type = "FileNotFoundError"
                                            THEN "INVALID_PDF" ELSE "PROCESSING_ERROR",
                                            n)>>
    /\ UNCHANGED <<due, artifacts, queue, fs_job_dir, fs_input, fs_out_dir, fs_files,
                   direct, w_args, w_exc, w_touched, c_pc, d_pc>>
    /\ UNCHANGED othersOfJob

\* remove_job_dir: the job directory and all below it are gone.
RemovedJobDir ==
    /\ fs_job_dir' = FALSE
    /\ fs_input' = FALSE
    /\ fs_out_dir' = FALSE
    /\ fs_files' = {}

\* cleanup_expired_jobs: list_expired_jobs finds the job.
CleanupList ==
    /\ c_pc = "idle"
    /\ job # <<>>
    /\ due
    /\ job[1].status # "expired"
    /\ c_pc' = "rm"
    /\ UNCHANGED <<job, due, artifacts, queue, fs_job_dir, fs_input, fs_out_dir,
                   fs_files, direct, w_pc, w_args, w_exc, w_ret, w_touched, d_pc>>
    /\ UNCHANGED othersOfJob

CleanupRemoveDir ==
    /\ c_pc = "rm"
    /\ RemovedJobDir
    /\ c_pc' = "arts"
    /\ UNCHANGED <<job, due, artifacts, queue, direct, w_pc, w_args, w_exc, w_ret,
                   w_touched, d_pc>>
    /\ UNCHANGED othersOfJob

CleanupDeleteArtifacts ==
    /\ c_pc = "arts"
    /\ artifacts' = {}
    /\ c_pc' = "upd"
    /\ UNCHANGED <<job, due, queue, fs_job_dir, fs_input, fs_out_dir, fs_files,
                   direct, w_pc, w_args, w_exc, w_ret, w_touched, d_pc>>
    /\ UNCHANGED othersOfJob

\* The update_job of the cleanup script; it raises if the row is gone.
CleanupUpdate ==
    /\ c_pc = "upd"
    /\ IF job = <<>>
       THEN UNCHANGED job
       ELSE job' = <<Updated(job[1],
                             [status |-> "expired", stage |-> "finalizing",
                              progress |-> 100])>>
    /\ c_pc' = "idle"
    /\ UNCHANGED <<due, artifacts, queue, fs_job_dir, fs_input, fs_out_dir, fs_files,
                   direct, w_pc, w_args, w_exc, w_ret, w_touched, d_pc>>
    /\ UNCHANGED othersOfJob

\* DELETE /v1/jobs/{id}: _must_get_job finds the job, remove_job_dir.
DeleteRemoveDir ==
    /\ d_pc = "idle"
    /\ job # <<>>
    /\ RemovedJobDir
    /\ d_pc' = "row"
    /\ UNCHANGED <<job, due, artifacts, queue, direct, w_pc, w_args, w_exc, w_ret,
                   w_touched, c_pc>>
    /\ UNCHANGED othersOfJob

\* DELETE /v1/jobs/{id}: job_service.delete_job, the artifacts go with the row.
DeleteRow ==
    /\ d_pc = "row"
    /\ job' = <<>>
    /\ artifacts' = {}
    /\ d_pc' = "gone"
    /\ UNCHANGED <<due, queue, fs_job_dir, fs_input, fs_out_dir, fs_files, direct,
                   w_pc, w_args, w_exc, w_ret, w_touched, c_pc>>
    /\ UNCHANGED othersOfJob

JobNext ==
    \/ CreateJob \/ DirectCall \/ Expire
    \/ WGetJob \/ WMarkRunning \/ WMkdir \/ XCheck \/ XPng \/ XSave
    \/ WClassifying \/ WClassify \/ WFinalizing \/ WZip \/ WDeleteArtifacts
    \/ WAddArtifacts \/ WMarkDone \/ WExcept
    \/ CleanupList \/ CleanupRemoveDir \/ CleanupDeleteArtifacts \/ CleanupUpdate
    \/ DeleteRemoveDir \/ DeleteRow

InitJob ==
    /\ JobInit
    /\ SegOff
    /\ HierOff
    /\ AssocOff
    /\ FreqOff
    /\ FirmaOff
    /\ CrossOff
    /\ ApiOff
    /\ RectOff

SpecJob == InitJob /\ [][JobNext]_vars

\* C10: a run whose input PDF does not exist raises FileNotFoundError before
\* it has created or written anything in the output location, for a direct
\* run_extraction call and for a job run by process_job alike.
C10_MissingInputTouchesNothing ==
    (w_exc # <<>> /\ w_exc[1] = [type |-> "FileNotFoundError", at |-> "run_extraction"])
        => ~w_touched

(***************************************************************************)
(* Signature cleaning (clean_firma_digital)                                *)
(***************************************************************************)
\* A text is a sequence of tokens: the words between whitespace, and "\n" for
\* a line break. The tokens of the model, by what the patterns read in them.
NL == "\n"

FechaLabels == {"Fecha:"}                 \* Fecha:
DateTokens == {"01-02-2024"}              \* \d{1,2}[-/]\d{1,2}[-/]\d{2,4}
TimeTokens == {"10:00:00"}                \* \d{1,2}:\d{2}[:\d.]*
UtcTokens == {"UTC-03:00"}                \* UTC\s*[+-]?\d{2}:\d{2}
LugarLabels == {"Lugar:"}                 \* Lugar:
DayTokens == {"3"}                        \* \d{1,2}
WordTokens == {"de", "marzo", "Santiago", "Juan"}   \* \w+
YearDotTokens == {"2024."}                \* \d{4}\.

\* The phrases a text of the model is put together from.
Chunks ==
    {<<"ley.">>,
     <<"Fecha:", "01-02-2024", "10:00:00", "UTC-03:00">>,
     <<"Lugar:">>,
     <<"Santiago">>,
     <<"Firmado", "Digitalmente", "por">>,
     <<"Juan">>,
     <<NL>>,
     <<"3", "de", "marzo", "de", "2024.">>}

\* Most phrases of a text.
MaxChunks == 6

At(txt, i) == IF i \in 1..Len(txt) THEN txt[i] ELSE ""

\* The first token at or after i that is no line break (Len + 1 if none).
RECURSIVE SkipNL(_, _)
SkipNL(txt, i) ==
    IF i <= Len(txt) /\ txt[i] = NL THEN SkipNL(txt, i + 1) ELSE i

\* One round of RE_FIRMA_BLOQUE at token i: the number of tokens of
\* "Fecha: <date> <time> [UTC...] [Lugar:]" found there with the whitespace
\* (line breaks) between and after its parts, 0 if none.
BloqueOnce(txt, i) ==
    LET d == SkipNL(txt, i + 1)
        t == SkipNL(txt, d + 1)
    IN IF /\ At(txt, i) \in FechaLabels
          /\ At(txt, d) \in DateTokens
          /\ At(txt, t) \in TimeTokens
       THEN LET a == SkipNL(txt, t + 1)
                b == IF At(txt, a) \in UtcTokens THEN SkipNL(txt, a + 1) ELSE a
                e == IF At(txt, b) \in LugarLabels THEN SkipNL(txt, b + 1) ELSE b
            IN e - i
       ELSE 0

\* RE_FIRMA_BLOQUE at token i: the rounds that follow one another ( (...)+ ).
RECURSIVE BloqueLen(_, _)
BloqueLen(txt, i) ==
    LET n == BloqueOnce(txt, i)
    IN IF n = 0 THEN 0 ELSE n + BloqueLen(txt, i + n)

\* RE_FIRMA_BLOQUE.sub("", texto) from token i on.
RECURSIVE SubBloque(_, _)
SubBloque(txt, i) ==
    IF i > Len(txt) THEN <<>>
    ELSE LET n == BloqueLen(txt, i)
         IN IF n > 0 THEN SubBloque(txt, i + n)
            ELSE <<txt[i]>> \o SubBloque(txt, i + 1)

\* The first line break or the end at or after i.
RECURSIVE LineEnd(_, _)
LineEnd(txt, i) ==
    IF i <= Len(txt) /\ txt[i] # NL THEN LineEnd(txt, i + 1) ELSE i

\* RE_FIRMA_COMPLETA at token i: "Firmado Digitalmente por", whitespace, and
\* what follows up to the end of its line; the number of tokens, 0 if none.
CompletaLen(txt, i) ==
    IF /\ At(txt, i) = "Firmado"
       /\ At(txt, i + 1) = "Digitalmente"
       /\ At(txt, i + 2) = "por"
       /\ SkipNL(txt, i + 3) <= Len(txt)
    THEN LineEnd(txt, SkipNL(txt, i + 3)) - i
    ELSE 0

\* RE_FIRMA_COMPLETA.sub("", texto) from token i on.
RECURSIVE SubCompleta(_, _)
SubCompleta(txt, i) ==
    IF i > Len(txt) THEN <<>>
    ELSE LET n == CompletaLen(txt, i)
         IN IF n > 0 THEN SubCompleta(txt, i + n)
            ELSE <<txt[i]>> \o SubCompleta(txt, i + 1)

\* str.rstrip() of a text: the line breaks at its end go.
RECURSIVE rstrip_text(_)
rstrip_text(txt) ==
    IF txt # <<>> /\ txt[Len(txt)] = NL
    THEN rstrip_text(SubSeq(txt, 1, Len(txt) - 1))
    ELSE txt

\* RE_FECHA_PRE_FIRMA.search(texto): "<day> de <month> de <year>." at the end
\* of the text; the index of its first token, 0 if there is no match.
FechaPreFirmaStart(txt) ==
    LET i == Len(txt) - 4
    IN IF /\ i >= 1
          /\ txt[i] \in DayTokens
          /\ txt[i + 1] = "de"
          /\ txt[i + 2] \in WordTokens
          /\ txt[i + 3] = "de"
          /\ txt[i + 4] \in YearDotTokens
       THEN i ELSE 0

clean_firma_digital(t0) ==
    LET t1 == SubBloque(t0, 1)
        t2 == SubCompleta(t1, 1)
        t3 == rstrip_text(t2)
        pos == FechaPreFirmaStart(t3)
        t4 == IF pos > 0 THEN rstrip_text(SubSeq(t3, 1, pos - 1)) ELSE t3
    IN rstrip_text(t4)

FirmaInit ==
    /\ t_pc = "input"
    /\ n_chunks = 0
    /\ texto = <<>>
    /\ limpio = <<>>

\* The text of a question grows by one phrase.
AddChunk ==
    /\ t_pc = "input"
    /\ n_chunks < MaxChunks
    /\ \E ch \in Chunks : texto' = texto \o ch
    /\ n_chunks' = n_chunks + 1
    /\ UNCHANGED <<t_pc, limpio>>
    /\ UNCHANGED othersOfFirma

\* clean_firma_digital(p["texto"])
CleanFirma ==
    /\ t_pc = "input"
    /\ limpio' = clean_firma_digital(texto)
    /\ t_pc' = "done"
    /\ UNCHANGED <<n_chunks, texto>>
    /\ UNCHANGED othersOfFirma

FirmaNext == AddChunk \/ CleanFirma

InitFirma ==
    /\ FirmaInit
    /\ SegOff
    /\ HierOff
    /\ AssocOff
    /\ FreqOff
    /\ JobOff
    /\ CrossOff
    /\ ApiOff
    /\ RectOff

SpecFirma == InitFirma /\ [][FirmaNext]_vars

\* The body of scenario C: the text, date, time zone, place and signer.
ScenarioC_Text ==
    <<"ley.", "Fecha:", "01-02-2024", "10:00:00", "UTC-03:00", "Lugar:", "Santiago",
      "Firmado", "Digitalmente", "por", "Juan">>

\* C12: clean_firma_digital of a body that ends in "...ley. Fecha: 01-02-2024
\* 10:00:00 UTC-03:00 Lugar: Santiago Firmado Digitalmente por <name>" is the
\* body up to "ley.", with date, time zone, place and signer gone.
C12_ScenarioC_BlockRemoved ==
    (t_pc = "done" /\ texto = ScenarioC_Text) => limpio = <<"ley.">>

(***************************************************************************)
(* Output records (build_question_lookup and run_extraction, FASE 5)       *)
(***************************************************************************)
\* Most questions the text segmenter returns.
MaxTextQs == 2

\* The bodies of the questions of the model: a plain body, and one that ends
\* in the words of a hinge.
QTexts == {<<"ley.">>, <<"ley.", "Ruido">>}

\* lookup[qn] = value
Put(lk, qn, value) ==
    [k \in (DOMAIN lk) \cup {qn} |-> IF k = qn THEN value ELSE lk[k]]

\* for qn in nums: lookup[qn] = value
RECURSIVE PutAll(_, _, _)
PutAll(lk, nums, value) ==
    IF nums = <<>> THEN lk
    ELSE PutAll(Put(lk, Head(nums), value), Tail(nums), value)

\* The loop over the hinges of one chapter.
RECURSIVE PutHinges(_, _, _)
PutHinges(lk, ch, hinges) ==
    IF hinges = <<>> THEN lk
    ELSE PutHinges(PutAll(lk, Head(hinges).questions,
                          [capitulo |-> ch.text, bisagra |-> <<Head(hinges).text>>]),
                   ch, Tail(hinges))

\* The loop of build_question_lookup over the chapters, from a lookup lk on:
\* the questions of the hinges, then questions_without_hinge (bisagra None).
RECURSIVE LookupFrom_HingesOnly(_, _)
LookupFrom_HingesOnly(lk, hierarchy) ==
    IF hierarchy = <<>> THEN lk
    ELSE LookupFrom_HingesOnly(PutHinges(lk, Head(hierarchy), Head(hierarchy).hinges),
                               Tail(hierarchy))

RECURSIVE LookupFrom(_, _)
LookupFrom(lk, hierarchy) ==
    IF hierarchy = <<>> THEN lk
    ELSE LET ch == Head(hierarchy)
         IN LookupFrom(PutAll(PutHinges(lk, ch, ch.hinges), ch.questions_without_hinge,
                              [capitulo |-> ch.text, bisagra |-> <<>>]),
                       Tail(hierarchy))

build_question_lookup(hierarchy) == LookupFrom(<<>>, hierarchy)

\* all_hinge_texts: the texts of the hinges of the hierarchy, in order.
RECURSIVE AllHingeTexts(_)
AllHingeTexts(hierarchy) ==
    IF hierarchy = <<>> THEN <<>>
    ELSE [i \in 1..Len(Head(hierarchy).hinges) |-> Head(hierarchy).hinges[i].text]
         \o AllHingeTexts(Tail(hierarchy))

\* ts.endswith(ht), on the words of the two texts.
EndsWith(ts, ht) ==
    Len(ht) <= Len(ts) /\ SubSeq(ts, Len(ts) - Len(ht) + 1, Len(ts)) = ht

\* A word that ends in a dot, and the word without it.
DottedWords == {"ley.", "2024."}

WithoutDot(w) == IF w = "ley." THEN "ley" ELSE IF w = "2024." THEN "2024" ELSE w

\* ht.endswith(".") and ht[:-1]
DotDropped(ht) == [ht EXCEPT ![Len(ht)] = WithoutDot(@)]

\* The loop of clean_trailing_hinge over the hinge texts from index i on.
RECURSIVE TrailingHingeLoop(_, _, _)
TrailingHingeLoop(ts, hts, i) ==
    IF i > Len(hts) THEN ts
    ELSE LET ht == rstrip_text(hts[i])
         IN IF ht = <<>> THEN TrailingHingeLoop(ts, hts, i + 1)
            ELSE IF EndsWith(ts, ht)
            THEN rstrip_text(SubSeq(ts, 1, Len(ts) - Len(ht)))
            ELSE IF ht[Len(ht)] \in DottedWords /\ EndsWith(ts, DotDropped(ht))
            THEN rstrip_text(SubSeq(ts, 1, Len(ts) - Len(ht)))
            ELSE TrailingHingeLoop(ts, hts, i + 1)

clean_trailing_hinge(txt, all_hinge_texts) ==
    IF all_hinge_texts = <<>> THEN txt
    ELSE rstrip_text(TrailingHingeLoop(rstrip_text(txt), all_hinge_texts, 1))

\* The order of sorted(..., key=lambda x: (x["tipo"], x["parte"])).
TfLess(a, b) ==
    \/ (a.tipo = "figura" /\ b.tipo = "tabla")
    \/ (a.tipo = b.tipo /\ a.parte < b.parte)

RECURSIVE InsertTf(_, _)
InsertTf(sorted, x) ==
    IF sorted = <<>> THEN <<x>>
    ELSE IF TfLess(x, sorted[Len(sorted)])
         THEN Append(InsertTf(SubSeq(sorted, 1, Len(sorted) - 1), x), sorted[Len(sorted)])
         ELSE Append(sorted, x)

RECURSIVE SortedTf(_)
SortedTf(items) ==
    IF items = <<>> THEN <<>>
    ELSE InsertTf(SortedTf(SubSeq(items, 1, Len(items) - 1)), items[Len(items)])

\* lookup.get(num, {}) followed by info.get("capitulo", "") and
\* info.get("bisagra"): "" is the empty text, None is <<>>.
InfoOf(lk, num) ==
    IF num \in DOMAIN lk THEN lk[num] ELSE [capitulo |-> <<>>, bisagra |-> <<>>]

\* dets_by_q.get(num, [])
DetsOf(by_q, num) == IF num \in DOMAIN by_q THEN by_q[num] ELSE <<>>

\* The record of one question of the text segmenter.
RecordOf(p, lk, by_q, hinge_texts) ==
    [capitulo |-> InfoOf(lk, p.numero).capitulo,
     bisagra |-> InfoOf(lk, p.numero).bisagra,
     numero |-> p.numero,
     texto |-> clean_trailing_hinge(clean_firma_digital(p.texto), hinge_texts),
     tablas_figuras |-> SortedTf(DetsOf(by_q, p.numero))]

\* The loop of FASE 5 over preguntas_text.
PreguntasFinal_AttachedOnly(pt, lk, by_q, hinge_texts) ==
    LET attached == SelectSeq(pt, LAMBDA p : p.numero \in DOMAIN lk)
    IN [i \in 1..Len(attached) |-> RecordOf(attached[i], lk, by_q, hinge_texts)]

PreguntasFinal(pt, lk, by_q, hinge_texts) ==
    [i \in 1..Len(pt) |-> RecordOf(pt[i], lk, by_q, hinge_texts)]

\* The questions the text segmenter can hand over.
TextQuestions == [numero : QNums, texto : QTexts]

TextQuestionLists ==
    UNION {[1..n -> TextQuestions] : n \in 0..MaxTextQs}

\* run_extraction after build_hierarchy: the lookup, then FASE 5 over the
\* questions of the text segmenter.
CrossRecords ==
    /\ x_pc = "done"
    /\ \E pt \in TextQuestionLists : preguntas_text' = pt
    /\ lookup' = build_question_lookup(result)
    /\ preguntas_final' =
           PreguntasFinal(preguntas_text', lookup', dets_by_q, AllHingeTexts(result))
    /\ x_pc' = "crossed"
    /\ UNCHANGED <<merged_bolds, all_chapters, all_hinges, all_qs_raw, timeline, tl_i,
                   result, cur_ch, cur_h>>
    /\ UNCHANGED <<segVars, assocVars, freqVars, jobVars, firmaVars, apiVars, rectVars>>

CrossNext == HierNext \/ CrossRecords

SpecCross == InitHier /\ [][CrossNext]_vars

(***************************************************************************)
(* Claims about the output records                                         *)
(***************************************************************************)
ChapterTitle == <<"I.", "Medio", "Ambiente">>

\* Scenario A: one page whose only events are the bold chapter line and,
\* 20pt below it, a layout question start numbered 1.
ScenarioA ==
    /\ merged_bolds =
          <<[sort_key |-> <<1, 100>>, height |-> LineHeight, text |-> ChapterTitle,
             roman |-> TRUE, excl |-> FALSE]>>
    /\ all_qs_raw = <<[num |-> 1, page |-> 1, sort_key |-> <<1, 120>>]>>

\* Scenario A but for the list of questions without hinge: one chapter with
\* the title, no hinge, and the records of question 1 carry the chapter's
\* title and no hinge.
ScenarioA_Rest ==
    /\ Len(result) = 1
    /\ result[1].text = ChapterTitle
    /\ result[1].hinges = <<>>
    /\ \A i \in 1..Len(preguntas_final) :
          preguntas_final[i].numero = 1 =>
              /\ preguntas_final[i].capitulo = ChapterTitle
              /\ preguntas_final[i].bisagra = <<>>

\* C11 as stated: in scenario A the hierarchy has one chapter without hinges
\* and with questions_without_hinge = [], and the record of question 1 has
\* the chapter's title as capitulo and a null bisagra.
C11_ScenarioA_AsStated ==
    (ScenarioA /\ x_pc = "crossed") =>
        (ScenarioA_Rest /\ result[1].questions_without_hinge = <<>>)

\* C11 amended: in scenario A the hierarchy has one chapter without hinges
\* whose questions_without_hinge is [1], and the record of question 1 has the
\* chapter's title as capitulo and a null bisagra.
C11_ScenarioA_Amended ==
    (ScenarioA /\ x_pc = "crossed") =>
        (ScenarioA_Rest /\ result[1].questions_without_hinge = <<1>>)

\* C11 witness: scenario A has run to its record of question 1.
C11_Witness ==
    /\ ScenarioA
    /\ x_pc = "crossed"
    /\ Len(preguntas_final) = 1
    /\ preguntas_final[1].numero = 1

\* The question numbers the hierarchy lists under a hinge or under a chapter
\* without hinge.
NumsInHierarchy ==
    UNION {Range(result[c].questions_without_hinge) \cup HingeQuestionsOf(result[c]) :
              c \in 1..Len(result)}

\* C13: every question of the text segmenter yields exactly one record, in the
\* segmenter's order; a question whose number the hierarchy does not list has
\* capitulo "" and a null bisagra, and a question that owns no region has an
\* empty tablas_figuras list.
C13_OneRecordPerTextQuestion ==
    x_pc = "crossed" =>
        /\ Len(preguntas_final) = Len(preguntas_text)
        /\ \A i \in 1..Len(preguntas_text) :
              LET r == preguntas_final[i]
                  n == preguntas_text[i].numero
              IN /\ r.numero = n
                 /\ n \notin NumsInHierarchy => (r.capitulo = <<>> /\ r.bisagra = <<>>)
                 /\ (\A d \in 1..Len(all_detections) : all_detections[d].pregunta # n)
                        => r.tablas_figuras = <<>>

\* C13 witness: two questions of the segmenter, the first not in the
\* hierarchy, the second under a chapter, both with a record.
C13_Witness ==
    /\ x_pc = "crossed"
    /\ Len(preguntas_text) = 2
    /\ preguntas_text[1].numero \notin NumsInHierarchy
    /\ preguntas_text[2].numero \in NumsInHierarchy
    /\ Len(preguntas_final) = 2
    /\ preguntas_final[1].capitulo = <<>>
    /\ preguntas_final[2].capitulo = ChapterTitle

(***************************************************************************)
(* The /v1/jobs routes that read a job: require_api_key, then the handler   *)
(***************************************************************************)
\* settings.api_key_set with the default api_keys
ApiKeySet == {"change-this-key"}

\* The X-API-Key header of a request: absent, empty, configured, or another.
Keys == {<<>>, <<"">>, <<"change-this-key">>, <<"wrong-key">>}

\* require_api_key: TRUE when the key is accepted, FALSE when it raises 401.
require_api_key(x_api_key) ==
    /\ x_api_key # <<>>
    /\ x_api_key[1] # ""
    /\ x_api_key[1] \in ApiKeySet

\* The id of the job of the model, and an id no job has.
TheJobId == "job-1"

JobIds == {TheJobId, "job-0"}

GetRoutes == {"status", "result", "result_file", "artifact"}

Routes == GetRoutes \cup {"create", "delete"}

\* The file names asked of GET /v1/jobs/{id}/artifacts/{filename}.
FileNames == {"preguntas.json", "preguntas_clasificadas.json"}

PREGUNTAS_CLASIFICADAS_FILENAME == "preguntas_clasificadas.json"

\* job_service.get_job
JobFound(job_id) == job_id = TheJobId /\ job # <<>>

\* A response: its status code, whether the handler looked the job up, and
\* the file it carries.
Resp(code, looked, file) == [status |-> code, looked_up |-> looked, file |-> file]

\* _artifact_file_response
artifact_file_response(job_id, filename) ==
    IF ~(job_id = TheJobId /\ filename \in artifacts) THEN Resp(404, TRUE, <<>>)
    ELSE IF filename \notin fs_files THEN Resp(404, TRUE, <<>>)
    ELSE Resp(200, TRUE, <<filename>>)

\* GET /v1/jobs/{id}
get_job_status(job_id) ==
    IF ~JobFound(job_id) THEN Resp(404, TRUE, <<>>) ELSE Resp(200, TRUE, <<>>)

\* GET /v1/jobs/{id}/result
get_job_result(job_id) ==
    IF ~JobFound(job_id) THEN Resp(404, TRUE, <<>>)
    ELSE IF job[1].status = "expired" THEN Resp(410, TRUE, <<>>)
    ELSE IF job[1].status = "failed" THEN Resp(409, TRUE, <<>>)
    ELSE IF job[1].status # "done" THEN Resp(409, TRUE, <<>>)
    ELSE Resp(200, TRUE, <<>>)

\* GET /v1/jobs/{id}/artifacts/{filename}
get_job_artifact(job_id, filename) ==
    IF ~JobFound(job_id) THEN Resp(404, TRUE, <<>>)
    ELSE artifact_file_response(job_id, filename)

\* The result file served whatever the job's status.
get_result_preguntas_clasificadas_AnyStatus(job_id) ==
    get_job_artifact(job_id, PREGUNTAS_CLASIFICADAS_FILENAME)

\* GET /v1/jobs/{id}/result/preguntas_clasificadas.json
get_result_preguntas_clasificadas(job_id) ==
    IF ~JobFound(job_id) THEN Resp(404, TRUE, <<>>)
    ELSE IF job[1].status = "expired" THEN Resp(410, TRUE, <<>>)
    ELSE IF job[1].status = "failed" THEN Resp(409, TRUE, <<>>)
    ELSE IF job[1].status # "done" THEN Resp(409, TRUE, <<>>)
    ELSE artifact_file_response(job_id, PREGUNTAS_CLASIFICADAS_FILENAME)

Handler(route, job_id, filename) ==
    CASE route = "status" -> get_job_status(job_id)
      [] route = "result" -> get_job_result(job_id)
      [] route = "result_file" -> get_result_preguntas_clasificadas(job_id)
      [] route = "artifact" -> get_job_artifact(job_id, filename)

\* The job looked up before the key is examined.
Respond_LookupFirst(route, key, job_id, filename) ==
    IF route # "create" /\ ~JobFound(job_id) THEN Resp(404, TRUE, <<>>)
    ELSE IF ~require_api_key(key) THEN Resp(401, FALSE, <<>>)
    ELSE Handler(route, job_id, filename)

\* A request to a route of the router: the router's dependency
\* require_api_key runs first, the handler only if it returns.
Respond(route, key, job_id, filename) ==
    IF ~require_api_key(key) THEN Resp(401, FALSE, <<>>)
    ELSE Handler(route, job_id, filename)

\* A request that is rejected, or that reads a job: nothing of the job, its
\* artifacts or its files changes.  (An accepted POST is CreateJob, an
\* accepted DELETE is DeleteRemoveDir and DeleteRow.)
ApiRequest ==
    /\ \E route \in Routes, key \in Keys, job_id \in JobIds :
       \E filename \in (IF route = "artifact" THEN FileNames
                                              ELSE {PREGUNTAS_CLASIFICADAS_FILENAME}) :
         /\ require_api_key(key) => route \in GetRoutes
         /\ api_resp' = <<[route |-> route, key |-> key, job_id |-> job_id,
                           resp |-> Respond(route, key, job_id, filename)]>>
    /\ UNCHANGED jobVars
    /\ UNCHANGED <<segVars, hierVars, assocVars, freqVars, firmaVars, crossVars, rectVars>>

ApiNext == JobNext \/ ApiRequest

SpecApi == InitJob /\ [][ApiNext]_vars

\* A request has just been answered.
Answered == api_resp' # api_resp /\ api_resp' # <<>>

\* C14: a request to a /v1/jobs route without an X-API-Key header, or with a
\* key that is not configured, is answered 401 with no job lookup and no
\* change of state, whether or not the job of its id exists.
C14_NoKeyGives401 ==
    [][(Answered /\ (api_resp'[1].key = <<>> \/ api_resp'[1].key[1] \notin ApiKeySet))
          => /\ api_resp'[1].resp.status = 401
             /\ ~api_resp'[1].resp.looked_up
             /\ UNCHANGED jobVars]_vars

\* C14 witness: a request without key for a job id that no job has was
\* answered 401.
C14_Witness ==
    /\ api_resp # <<>>
    /\ api_resp[1].key = <<>>
    /\ api_resp[1].job_id # TheJobId
    /\ api_resp[1].route = "status"
    /\ api_resp[1].resp.status = 401

\* The answer C15 describes for the result file of the job of the model.
ResultFileServed ==
    /\ job # <<>>
    /\ job[1].status = "done"
    /\ PREGUNTAS_CLASIFICADAS_FILENAME \in artifacts
    /\ PREGUNTAS_CLASIFICADAS_FILENAME \in fs_files

\* C15: GET /v1/jobs/{id}/result/preguntas_clasificadas.json with an accepted
\* key answers 200 with the file exactly when the job exists, is done, has the
\* artifact registered and the file exists; 410 for an expired job; 409 for a
\* failed, queued or running job; 404 when the job is missing or when a done
\* job lacks the artifact.
C15_ResultFileStatus ==
    [][(Answered /\ api_resp'[1].route = "result_file"
                 /\ api_resp'[1].key = <<"change-this-key">>)
          => LET r == api_resp'[1].resp
                 mine == api_resp'[1].job_id = TheJobId /\ job # <<>>
             IN /\ r.status = 200 <=> (mine /\ ResultFileServed)
                /\ r.status = 200 => r.file = <<PREGUNTAS_CLASIFICADAS_FILENAME>>
                /\ (mine /\ job[1].status = "expired") => r.status = 410
                /\ (mine /\ job[1].status \in {"failed", "queued", "running"})
                       => r.status = 409
                /\ ~mine => r.status = 404
                /\ (mine /\ job[1].status = "done" /\ ~ResultFileServed)
                       => r.status = 404]_vars

\* C15 witness: the result file of a done job was served.
C15_Witness ==
    /\ api_resp # <<>>
    /\ api_resp[1].route = "result_file"
    /\ api_resp[1].resp.status = 200
    /\ api_resp[1].resp.file = <<PREGUNTAS_CLASIFICADAS_FILENAME>>

(***************************************************************************)
(* Claims about the fold of the timeline and the classification of bolds   *)
(***************************************************************************)
\* The fold takes the event of the given kind at tl_i.
EventStep(kind) ==
    /\ x_pc = "fold"
    /\ tl_i <= Len(timeline)
    /\ timeline[tl_i].kind = kind
    /\ tl_i' = tl_i + 1

\* C16: a Question event appends its number to the open hinge if there is
\* one, else to questions_without_hinge of the open chapter if there is one,
\* else to nothing; no other hinge or chapter receives it.
C16_QuestionGoesToOpenHingeOrChapter ==
    [][EventStep("question") =>
          LET qn == timeline[tl_i].num
          IN /\ result' = result
             /\ (cur_ch # <<>> /\ cur_h # <<>>) =>
                   /\ cur_h' = <<[cur_h[1] EXCEPT !.questions = Append(@, qn)]>>
                   /\ cur_ch' # <<>>
                   /\ cur_ch'[1].questions_without_hinge
                          = cur_ch[1].questions_without_hinge
                   /\ cur_ch'[1].hinges = cur_ch[1].hinges
             /\ (cur_ch # <<>> /\ cur_h = <<>>) =>
                   /\ cur_h' = <<>>
                   /\ cur_ch' # <<>>
                   /\ cur_ch'[1].questions_without_hinge
                          = Append(cur_ch[1].questions_without_hinge, qn)
                   /\ cur_ch'[1].hinges = cur_ch[1].hinges
             /\ cur_ch = <<>> => UNCHANGED <<cur_ch, cur_h>>]_vars

\* C16 witness: the open chapter has a question without hinge and its open
\* hinge has a question.
C16_Witness ==
    /\ x_pc = "fold"
    /\ cur_ch # <<>>
    /\ cur_h # <<>>
    /\ cur_ch[1].questions_without_hinge # <<>>
    /\ cur_h[1].questions # <<>>

\* The positions of the timeline, in order.
TimelineIdx == [j \in 1..Len(timeline) |-> j]

\* The positions of the Chapter events.
ChapterPos == SelectSeq(TimelineIdx, LAMBDA j : timeline[j].kind = "chapter")

\* The positions of the Hinge events after position c and before position n.
HingePosBetween(c, n) ==
    SelectSeq(TimelineIdx, LAMBDA j : timeline[j].kind = "hinge" /\ c < j /\ j < n)

\* The key and text of each element of a list of events or headings.
Headings(seq) == [k \in 1..Len(seq) |-> <<seq[k].sort_key, seq[k].text>>]

\* C17: build_hierarchy returns one chapter per Chapter event, in timeline
\* order, and the hinges list of each chapter is the Hinge events between
\* its Chapter event and the next one (or the end), in timeline order.
C17_ChaptersAndHingesCommitted ==
    x_pc = "done" =>
        /\ Headings(result) = Headings([i \in 1..Len(ChapterPos) |-> timeline[ChapterPos[i]]])
        /\ \A i \in 1..Len(ChapterPos) :
              LET upto == IF i < Len(ChapterPos) THEN ChapterPos[i + 1]
                                                 ELSE Len(timeline) + 1
                  hp == HingePosBetween(ChapterPos[i], upto)
              IN i <= Len(result) =>
                    Headings(result[i].hinges)
                        = Headings([k \in 1..Len(hp) |-> timeline[hp[k]]])

\* C17 witness: two chapters, the first with a hinge that the second
\* chapter's event closed.
C17_Witness ==
    /\ x_pc = "done"
    /\ Len(result) = 2
    /\ Len(result[1].hinges) = 1

\* The keys of the hinges of the hierarchy.
HingeKeysOfResult ==
    UNION {{result[c].hinges[k].sort_key : k \in 1..Len(result[c].hinges)} :
              c \in 1..Len(result)}

\* C18: a Hinge event met while no chapter is open leaves cur_ch, cur_h and
\* result as they are, as does a Question event met then; such a hinge is in
\* no chapter of the hierarchy.
C18_HingeWithoutChapterIgnored ==
    /\ [][((EventStep("hinge") \/ EventStep("question")) /\ cur_ch = <<>>)
             => UNCHANGED <<cur_ch, cur_h, result>>]_vars
    /\ [](x_pc = "done" =>
             \A j \in 1..Len(timeline) :
                (timeline[j].kind = "hinge" /\ (ChapterPos = <<>> \/ j < ChapterPos[1]))
                    => timeline[j].sort_key \notin HingeKeysOfResult)

\* C18 witness: the timeline was a hinge, a question, then a chapter, and
\* the hierarchy is the chapter alone.
C18_Witness ==
    /\ x_pc = "done"
    /\ Len(timeline) = 3
    /\ timeline[1].kind = "hinge"
    /\ timeline[2].kind = "question"
    /\ timeline[3].kind = "chapter"
    /\ Len(result) = 1
    /\ result[1].hinges = <<>>
    /\ result[1].questions = <<>>

\* The last position of K before i (0 when there is none).
PrevIn(K, i) ==
    IF \E j \in K : j < i
    THEN CHOOSE j \in K : j < i /\ \A k \in K : k < i => k <= j
    ELSE 0

\* The positions a scan of the numbers keeps: the first, and every one whose
\* number is at least that of the last position kept before it.
KeptPositions(nums) ==
    CHOOSE K \in SUBSET (1..Len(nums)) :
        \A i \in 1..Len(nums) :
            i \in K <=> (PrevIn(K, i) = 0 \/ nums[i] >= nums[PrevIn(K, i)])

\* The Question events of the timeline, in order.
QuestionEvents == SelectSeq(timeline, LAMBDA e : e.kind = "question")

\* C19: the question starts that reach the timeline are those a scan in
\* (page, y0) order keeps, a start being kept exactly when its number is at
\* least the number of the last start kept (the first is kept); their numbers
\* never decrease.
C19_ContinuityKeepsNonDecreasing ==
    x_pc = "fold" =>
        LET nums == [i \in 1..Len(all_qs_raw) |-> all_qs_raw[i].num]
            K == KeptPositions(nums)
            keptPos == SelectSeq([i \in 1..Len(all_qs_raw) |-> i], LAMBDA i : i \in K)
        IN /\ [k \in 1..Len(QuestionEvents) |->
                  <<QuestionEvents[k].sort_key, QuestionEvents[k].num>>]
                = [k \in 1..Len(keptPos) |->
                      <<all_qs_raw[keptPos[k]].sort_key, all_qs_raw[keptPos[k]].num>>]
           /\ \A a, b \in 1..Len(QuestionEvents) :
                 a < b => QuestionEvents[a].num <= QuestionEvents[b].num

\* C19 witness: three starts numbered 1, 0, 1: the second is dropped, the
\* third, equal to the last kept, is kept.
C19_Witness ==
    /\ x_pc = "fold"
    /\ [i \in 1..Len(all_qs_raw) |-> all_qs_raw[i].num] = <<1, 0, 1>>
    /\ [k \in 1..Len(QuestionEvents) |-> QuestionEvents[k].num] = <<1, 1>>

\* A layout question start of the run's page lies at or below the run's
\* bottom within the maximum gap.
StartWithinGap(b) ==
    \E i \in 1..Len(all_qs_raw) :
        /\ all_qs_raw[i].sort_key[1] = b.sort_key[1]
        /\ all_qs_raw[i].sort_key[2] >= b.sort_key[2] + b.height
        /\ all_qs_raw[i].sort_key[2] - (b.sort_key[2] + b.height) <= MAX_BISAGRA_TO_Q_GAP

\* The run lies within the bottom-page margin and the next page has a
\* question start within the top window.
StartOnNextPage(b) ==
    /\ PageHeight - (b.sort_key[2] + b.height) <= BOTTOM_PAGE_MARGIN
    /\ \E i \in 1..Len(all_qs_raw) :
          /\ all_qs_raw[i].sort_key[1] = b.sort_key[1] + 1
          /\ all_qs_raw[i].sort_key[2] <= TOP_NEXT_PAGE_SEARCH

\* C20: every merged bold run whose text matches the roman-numeral pattern is
\* emitted as a Chapter; any other run is emitted as a Hinge exactly when it
\* intersects no region and has a question start within the gap on its page
\* or, failing that, lies in the bottom margin with a start in the next
\* page's top window; every other run is emitted as nothing.
C20_BoldsClassifiedAsStated ==
    x_pc = "fold" =>
        /\ KeysOf(all_chapters) = RomanKeysOf(merged_bolds)
        /\ KeysOf(all_hinges) =
              {merged_bolds[i].sort_key :
                  i \in {j \in 1..Len(merged_bolds) :
                            /\ ~merged_bolds[j].roman
                            /\ ~merged_bolds[j].excl
                            /\ \/ StartWithinGap(merged_bolds[j])
                               \/ StartOnNextPage(merged_bolds[j])}}

\* C23: no two events of one timeline have equal (page, y0) keys.
C23_TimelineKeysDistinct ==
    x_pc = "fold" =>
        \A i, j \in 1..Len(timeline) :
            i # j => timeline[i].sort_key # timeline[j].sort_key

(***************************************************************************)
(* Claims about process_job, the cleanup script and the served artifacts   *)
(***************************************************************************)
\* The steps of the task and of run_extraction: a worker runs the task
\* function to its return.
WorkerStep ==
    \/ WGetJob \/ WMarkRunning \/ WMkdir \/ XCheck \/ XPng \/ XSave
    \/ WClassifying \/ WClassify \/ WFinalizing \/ WZip \/ WDeleteArtifacts
    \/ WAddArtifacts \/ WMarkDone \/ WExcept

SpecJobFair == InitJob /\ [][JobNext]_vars /\ WF_vars(WorkerStep)

\* process_job returns from an except clause.
ExceptReturn == w_pc = "except" /\ w_pc' = "idle" /\ ~direct

\* C25: when run_extraction or run_classification raises in process_job and
\* the job exists, the job gets status failed, progress 100, error_code
\* INVALID_PDF for a FileNotFoundError and PROCESSING_ERROR otherwise, and an
\* error_message of at most 3900 characters; no new task is queued and the
\* task returns.
C25_FailureRecorded ==
    [][(ExceptReturn /\ job # <<>>
            /\ w_exc[1].at \in {"run_extraction", "run_classification"})
          => /\ job' # <<>>
             /\ job'[1].status = "failed"
             /\ job'[1].progress = 100
             /\ job'[1].error_code =
                    (IF w_exc[1].type = "FileNotFoundError" THEN "INVALID_PDF"
                                                            ELSE "PROCESSING_ERROR")
             /\ job'[1].error_len <= 3900
             /\ queue' = queue
             /\ w_ret' = "failed"]_vars

\* C25 witness: the input PDF was missing, the job is failed with
\* INVALID_PDF and a message cut at the limit.
C25_Witness ==
    /\ w_pc = "idle"
    /\ w_ret = "failed"
    /\ w_exc = Raised("FileNotFoundError", "run_extraction")
    /\ job # <<>>
    /\ job[1].status = "failed"
    /\ job[1].error_code = "INVALID_PDF"
    /\ job[1].error_len = 3900

C29_ExpiredIsTerminal ==
    [][(job # <<>> /\ job[1].status = "expired" /\ c_pc = "idle" /\ job' # <<>>)
          => /\ job'[1].status = "expired"
             /\ artifacts' \subseteq artifacts]_vars

\* C30: a response that carries an artifact file is given only for a job
\* whose status is done.
C30_ArtifactServedOnlyWhenDone ==
    [][(Answered /\ api_resp'[1].resp.file # <<>>)
          => (job # <<>> /\ job[1].status = "done")]_vars

(***************************************************************************)
(* The regions in the output records                                       *)
(***************************************************************************)
\* run_extraction on a document without bold runs: FASE 1 and FASE 4 with
\* the regions, then FASE 5.
OutNext ==
    \/ AddQStart \/ AddDetection
    \/ StartAssoc \/ AssocStep \/ AssocEnd
    \/ CrossRecords

SpecOut == InitAssoc /\ [][OutNext]_vars

\* The records whose tablas_figuras list holds the entry of detection det.
RecordsListing(det) ==
    {i \in 1..Len(preguntas_final) :
        \E k \in 1..Len(preguntas_final[i].tablas_figuras) :
            preguntas_final[i].tablas_figuras[k]
                = [tipo |-> det.tipo, parte |-> det.parte, png |-> det.png]}

\* C27: in the final output every region with an owner is in tablas_figuras
\* of exactly one record, the one whose numero is the owner, and a region
\* without owner is in no record.
C27_RegionInOwnersRecordOnly ==
    x_pc = "crossed" =>
        \A d \in 1..Len(all_detections) :
            LET det == all_detections[d]
            IN IF det.pregunta = None
               THEN RecordsListing(det) = {}
               ELSE /\ Cardinality(RecordsListing(det)) = 1
                    /\ \A i \in RecordsListing(det) :
                          preguntas_final[i].numero = det.pregunta

(***************************************************************************)
(* Rectangle merging: merge_rects and extract_raster_figures               *)
(***************************************************************************)
MERGE_GAP == 12
MIN_FIG_AREA == 8000
\* The gap extract_raster_figures passes to merge_rects.
FIG_GAP == 10

MaxRects == 3

\* Horizontal and vertical extents of the rectangles of a page, in points:
\* 40 to 48 is within every gap, 100 to 115 and 211 to 230 only within the
\* doubled MERGE_GAP, 100 to 111 within MERGE_GAP but not within FIG_GAP.
XSpans == {<<0, 40>>, <<48, 100>>, <<115, 200>>, <<30, 60>>}
YSpans == {<<0, 100>>, <<111, 211>>, <<230, 300>>}

Rect(xs, ys) == [x0 |-> xs[1], y0 |-> ys[1], x1 |-> xs[2], y1 |-> ys[2]]
PageRects == {Rect(xs, ys) : xs \in XSpans, ys \in YSpans}
RectLists == UNION {[1..n -> PageRects] : n \in 0..MaxRects}

MinOf(a, b) == IF a <= b THEN a ELSE b

rect_area(r) == Max(0, r.x1 - r.x0) * Max(0, r.y1 - r.y0)

union_rect_First(a, b) == a

union_rect(a, b) ==
    [x0 |-> MinOf(a.x0, b.x0), y0 |-> MinOf(a.y0, b.y0),
     x1 |-> Max(a.x1, b.x1), y1 |-> Max(a.y1, b.y1)]

rect_close(a, b, gap) ==
    LET dx == Max(0, Max(a.x0 - b.x1, b.x0 - a.x1))
        dy == Max(0, Max(a.y0 - b.y1, b.y0 - a.y1))
    IN dx <= gap /\ dy <= gap

\* The first index i of seq with rect_close(seq[i], r, gap), 0 when none:
\* the for loop with its break.
FirstClose(seq, r, gap) ==
    IF \E i \in 1..Len(seq) : rect_close(seq[i], r, gap)
    THEN CHOOSE i \in 1..Len(seq) :
            /\ rect_close(seq[i], r, gap)
            /\ \A j \in 1..(i - 1) : ~rect_close(seq[j], r, gap)
    ELSE 0

RectInit ==
    /\ mr_pc = "idle"
    /\ mr_images = <<>>
    /\ mr_rects = <<>>
    /\ mr_gap = 0
    /\ mr_i = 0
    /\ mr_out = <<>>
    /\ mr_new_out = <<>>
    /\ mr_changed = FALSE

\* merge_rects is entered: out = [].
EnterMerge(rects, gap) ==
    /\ mr_rects' = rects
    /\ mr_gap' = gap
    /\ mr_i' = 1
    /\ mr_out' = <<>>
    /\ mr_new_out' = <<>>
    /\ mr_changed' = FALSE
    /\ mr_pc' = "first"

\* extract_raster_figures(page) up to its call of merge_rects: the image
\* rectangles of the page with rect_area >= MIN_FIG_AREA, gap 10.
extract_raster_figures ==
    /\ mr_pc = "idle"
    /\ \E images \in RectLists :
          /\ mr_images' = images
          /\ EnterMerge(SelectSeq(images, LAMBDA rr : rect_area(rr) >= MIN_FIG_AREA),
                        FIG_GAP)
    /\ UNCHANGED othersOfRect

\* The calls of merge_rects on the vector rectangles of a page: gap
\* MERGE_GAP, then MERGE_GAP * 2.
MergeVectorRects ==
    /\ mr_pc = "idle"
    /\ \E rects \in RectLists, gap \in {MERGE_GAP, MERGE_GAP * 2} :
          EnterMerge(rects, gap)
    /\ UNCHANGED mr_images
    /\ UNCHANGED othersOfRect

\* One turn of "for r in rects".
MergeFirst ==
    /\ mr_pc = "first"
    /\ mr_i <= Len(mr_rects)
    /\ LET r == mr_rects[mr_i]
           i == FirstClose(mr_out, r, mr_gap)
       IN mr_out' = IF i # 0
                    THEN [mr_out EXCEPT ![i] = union_rect(mr_out[i], r)]
                    ELSE Append(mr_out, r)
    /\ mr_i' = mr_i + 1
    /\ UNCHANGED <<mr_pc, mr_images, mr_rects, mr_gap, mr_new_out, mr_changed>>
    /\ UNCHANGED othersOfRect

\* The for loop is over: changed = True, the while loop is entered and
\* sets changed = False, new_out = [].
MergeFirstEnd ==
    /\ mr_pc = "first"
    /\ mr_i > Len(mr_rects)
    /\ mr_changed' = FALSE
    /\ mr_new_out' = <<>>
    /\ mr_pc' = "pass"
    /\ UNCHANGED <<mr_images, mr_rects, mr_gap, mr_i, mr_out>>
    /\ UNCHANGED othersOfRect

\* One turn of "while out": r = out.pop(), merged into the first close
\* rectangle left in out, appended to new_out when there is none.
MergePop ==
    /\ mr_pc = "pass"
    /\ mr_out # <<>>
    /\ LET r == mr_out[Len(mr_out)]
           rest == SubSeq(mr_out, 1, Len(mr_out) - 1)
           i == FirstClose(rest, r, mr_gap)
       IN IF i # 0
          THEN /\ mr_out' = [rest EXCEPT ![i] = union_rect(rest[i], r)]
               /\ mr_changed' = TRUE
               /\ UNCHANGED mr_new_out
          ELSE /\ mr_out' = rest
               /\ mr_new_out' = Append(mr_new_out, r)
               /\ UNCHANGED mr_changed
    /\ UNCHANGED <<mr_pc, mr_images, mr_rects, mr_gap, mr_i>>
    /\ UNCHANGED othersOfRect

\* "while out" is over: out = new_out; another pass when changed, else
\* return out.
MergePassEnd ==
    /\ mr_pc = "pass"
    /\ mr_out = <<>>
    /\ mr_out' = mr_new_out
    /\ IF mr_changed
       THEN /\ mr_changed' = FALSE
            /\ mr_new_out' = <<>>
            /\ UNCHANGED mr_pc
       ELSE /\ mr_pc' = "done"
            /\ UNCHANGED <<mr_changed, mr_new_out>>
    /\ UNCHANGED <<mr_images, mr_rects, mr_gap, mr_i>>
    /\ UNCHANGED othersOfRect

MergeStep == MergeFirst \/ MergeFirstEnd \/ MergePop \/ MergePassEnd

RectNext ==
    \/ extract_raster_figures
    \/ MergeVectorRects
    \/ MergeFirst
    \/ MergeFirstEnd
    \/ MergePop
    \/ MergePassEnd

InitRect ==
    /\ RectInit
    /\ SegOff
    /\ HierOff
    /\ AssocOff
    /\ FreqOff
    /\ JobOff
    /\ FirmaOff
    /\ CrossOff
    /\ ApiOff

SpecRect == InitRect /\ [][RectNext]_vars

\* merge_rects runs to its end once called.
SpecRectFair == InitRect /\ [][RectNext]_vars /\ WF_vars(MergeStep)

(***************************************************************************)
(* Claims about rectangle merging                                          *)
(***************************************************************************)
Contains(g, r) == g.x0 <= r.x0 /\ g.y0 <= r.y0 /\ r.x1 <= g.x1 /\ r.y1 <= g.y1

\* What merge_rects returned has no two rectangles within the gap and
\* covers every rectangle it was given.
FixedPoint ==
    /\ \A i, j \in 1..Len(mr_out) :
          i # j => ~rect_close(mr_out[i], mr_out[j], mr_gap)
    /\ \A k \in 1..Len(mr_rects) :
          \E i \in 1..Len(mr_out) : Contains(mr_out[i], mr_rects[k])

\* C24: merge_rects terminates on every finite list and returns a fixed
\* point: no two rectangles of the result are within the gap of each other,
\* and every input rectangle lies inside some rectangle of the result.
C24_MergeRectsFixedPoint ==
    /\ [](mr_pc = "done" => FixedPoint)
    /\ (mr_pc = "first") ~> (mr_pc = "done")

\* C24, its case: three rectangles in a row, the first two apart, the third
\* bridging them only after it was merged into the first; one rectangle is
\* returned.
C24_Witness ==
    /\ mr_pc = "done"
    /\ Len(mr_rects) = 3
    /\ ~rect_close(mr_rects[1], mr_rects[2], mr_gap)
    /\ ~rect_close(mr_rects[2], mr_rects[3], mr_gap)
    /\ rect_close(mr_rects[1], mr_rects[3], mr_gap)
    /\ Len(mr_out) = 1

\* C22: the figure regions of a page are the merged groups of its image
\* rectangles whose merged area is at least MIN_FIG_AREA, images below the
\* minimum included: two images within the figure gap of each other whose
\* union reaches the minimum lie together in one returned region.
C22_SmallImagesContribute ==
    (mr_pc = "done" /\ mr_gap = FIG_GAP) =>
        \A a, b \in 1..Len(mr_images) :
            (/\ rect_close(mr_images[a], mr_images[b], FIG_GAP)
             /\ rect_area(union_rect(mr_images[a], mr_images[b])) >= MIN_FIG_AREA)
            => \E i \in 1..Len(mr_out) :
                  /\ Contains(mr_out[i], mr_images[a])
                  /\ Contains(mr_out[i], mr_images[b])

=============================================================================
